---- MODULE Spec2Model ----
(***************************************************************************)
(* Vendor-bill variance suitelets (IR/VB rate correction, PO/VB review)    *)
(* and the scheduled IR updater: the Record Mutator, the interactive batch *)
(* driver (handlePost) and the closed-period adjustment.                   *)
(*                                                                         *)
(* Money is held in cents (100 = $1.00).  Documents live in the platform's *)
(* record store; record.load gives an in-memory copy, record.save writes   *)
(* it back or throws.                                                      *)
(***************************************************************************)
EXTENDS Integers, Sequences, FiniteSets, TLC

VARIABLES
    variant,    \* which script runs: "IR" (IR/VB suitelet), "PO" (PO/VB suitelet)
    store,      \* the platform's record store: document id -> [lines, fault]
    call,       \* the last Record Mutator call and its outcome (mutator specification)
    req,        \* request parameters of the next batch round (the continuation in flight)
    lastReq,    \* request parameters of the round that ran last
    resp,       \* what the last round emitted (redirect parameters), or that it emitted nothing
    hist,       \* history: rounds run since the first submission and the positions attempted
    vb,         \* the Vendor Bill of the closed-period adjustment, as stored
    je,         \* Journal Entries persisted by the closed-period adjustment
    adj,        \* the last closed-period adjustment request and its outcome
    run,        \* the scheduled script's run: its pairs, position, allowance and results
    rows,       \* the raw rows the search returned last, in the order it returned them
    pairs,      \* the variance pairs made of them
    page        \* the PO/VB review page: script parameters, request and what was shown

vars == <<variant, store, call, req, lastReq, resp, hist, vb, je, adj, run, rows, pairs, page>>

----------------------------------------------------------------------------
(* Bounds *)

\* longest selection submitted to the batch driver
MaxSel == 12
\* most lines on the document the mutator specification varies
MaxLines == 3
\* most closed-period adjustments that reach the Vendor Bill save
MaxAdjustments == 1
\* most variance pairs a scheduled run finds
MaxPairs == 4
\* most raw rows one search returns
MaxRows == 5

----------------------------------------------------------------------------
(* Values *)

Abs(x) == IF x < 0 THEN -x ELSE x
Min(a, b) == IF a < b THEN a ELSE b

\* JavaScript truthiness of a sublist value held as a string: "" (no value) is falsy
Truthy(s) == s # ""

\* rate strings as they travel in the selection tuples, and what parseFloat makes of them (cents)
RateStrings == {"10.00", "12.5"}
parseFloat(s) ==
    CASE s = "10.00" -> 1000
      [] s = "12.5"  -> 1250
      [] s = "100.00" -> 10000
      [] s = "105.00" -> 10500
      [] s = "105.01" -> 10501
      [] s = "105.02" -> 10502
      [] s = "10" -> 1000
      [] s = "100" -> 10000
      [] s = "105" -> 10500
      [] s = "0" -> 0
      [] s = "0.00" -> 0
      [] s = "3" -> 300
      [] s = "10.20" -> 1020
      [] s = "101.00" -> 10100
      [] s = "103.00" -> 10300
      [] s = "9.00" -> 900
      [] s = "12.50" -> 1250

\* messages of the errors the Record Mutator can raise; NoMessage: the thrown value has no message
NotFoundIR == "No lines found with Item ID on IR"
NotFoundPO == "No lines found with Line Key on PO"
ClosedPeriodMsg == "The transaction date is in a closed period"
NoSuchRecordMsg == "That record does not exist"
NoMessage == "<undefined>"

\* the message is compared whole instead of searched
ContainsExactly(msg, needle) == msg = needle
\* String.prototype.indexOf(needle) !== -1 on the messages above
Contains(msg, needle) ==
    \/ needle = "closed period" /\ msg = ClosedPeriodMsg
    \/ needle = "No lines found" /\ msg \in {NotFoundIR, NotFoundPO}

----------------------------------------------------------------------------
(* The record store *)

DocIds == {"1", "2"}
Faults == {"none", "closed", "nomsg"}

\* a stored line: item, lineuniquekey, rate (cents), custcol_rate_variance_reviewed
Line(item, key) == [item |-> item, key |-> key, rate |-> 900, reviewed |-> FALSE]

\* document "1" carries item "7" on two lines; document "2" has a line without an item
LinesOfDoc1 == <<Line("7", "k1"), Line("8", "k2"), Line("7", "k3")>>
LinesOfDoc2 == <<Line("8", "k4"), Line("", "k5")>>

\* record.load: the in-memory copy of a stored document
recordLoad(st, id) == st[id].lines

\* record.save: persists the in-memory lines, or throws as the platform decides
\* (a locked accounting period, or a failure whose thrown value carries no message)
recordSave(st, id, lines) ==
    CASE st[id].fault = "closed" -> [ok |-> FALSE, err |-> ClosedPeriodMsg, store |-> st]
      [] st[id].fault = "nomsg"  -> [ok |-> FALSE, err |-> NoMessage, store |-> st]
      [] OTHER -> [ok |-> TRUE, err |-> "", store |-> [st EXCEPT ![id].lines = lines]]

----------------------------------------------------------------------------
(* The Record Mutator *)

\* outcome of a mutator call: ok or the thrown message, whether save was called, the store after
Outcome(ok, err, saveCalled, st) ==
    [ok |-> ok, err |-> err, saveCalled |-> saveCalled, store |-> st]

\* the lines an IR call matches: currentItem && currentItem.toString() === itemId.toString()
MatchesItem(line, itemId) == Truthy(line.item) /\ line.item = itemId

\* a delta written instead of the full value
SetRateDelta(line, value) == [line EXCEPT !.rate = line.rate + value]
\* setSublistValue({fieldId: 'rate', value})
SetRate(line, value) == [line EXCEPT !.rate = value]

\* only the first matching line is updated
UpdateFirstMatch(lines, itemId, value) ==
    LET hits == {i \in DOMAIN lines : MatchesItem(lines[i], itemId)}
    IN [i \in DOMAIN lines |->
            IF i \in hits /\ \A j \in hits : i <= j THEN SetRate(lines[i], value) ELSE lines[i]]
\* every line gets the new rate, whatever its item
UpdateEvery(lines, itemId, value) == [i \in DOMAIN lines |-> SetRate(lines[i], value)]
\* the for loop of updateItemReceiptLineRate: every matching line gets the new rate
UpdateMatching(lines, itemId, value) ==
    [i \in DOMAIN lines |->
        IF MatchesItem(lines[i], itemId) THEN SetRate(lines[i], value) ELSE lines[i]]

linesUpdated(lines, itemId) == Cardinality({i \in DOMAIN lines : MatchesItem(lines[i], itemId)})

\* the record is saved before the match count is looked at
updateItemReceiptLineRateSaveFirst(st, irId, lineId, itemId, newRate) ==
    IF irId \notin DOMAIN st
    THEN Outcome(FALSE, NoSuchRecordMsg, FALSE, st)
    ELSE LET irRecord == UpdateMatching(recordLoad(st, irId), itemId, parseFloat(newRate))
             s == recordSave(st, irId, irRecord)
         IN  IF linesUpdated(irRecord, itemId) = 0
             THEN Outcome(FALSE, NotFoundIR, TRUE, s.store)
             ELSE Outcome(s.ok, s.err, TRUE, s.store)
updateItemReceiptLineRate(st, irId, lineId, itemId, newRate) ==
    IF irId \notin DOMAIN st
    THEN Outcome(FALSE, NoSuchRecordMsg, FALSE, st)
    ELSE LET irRecord == UpdateMatching(recordLoad(st, irId), itemId, parseFloat(newRate))
         IN  IF linesUpdated(irRecord, itemId) = 0
             THEN Outcome(FALSE, NotFoundIR, FALSE, st)
             ELSE LET s == recordSave(st, irId, irRecord)
                  IN  Outcome(s.ok, s.err, TRUE, s.store)

\* the line markPOLineReviewed marks: the first whose key matches (the loop breaks there), 0 if none
FirstKeyMatch(lines, poLineKey) ==
    LET hits == {i \in DOMAIN lines : Truthy(lines[i].key) /\ lines[i].key = poLineKey}
    IN  IF hits = {} THEN 0 ELSE CHOOSE i \in hits : \A j \in hits : i <= j

markPOLineReviewed(st, poId, poLineKey) ==
    IF poId \notin DOMAIN st
    THEN Outcome(FALSE, NoSuchRecordMsg, FALSE, st)
    ELSE LET loaded == recordLoad(st, poId)
             hit == FirstKeyMatch(loaded, poLineKey)
         IN  IF hit = 0
             THEN Outcome(FALSE, NotFoundPO, FALSE, st)
             ELSE LET s == recordSave(st, poId, [loaded EXCEPT ![hit].reviewed = TRUE])
                  IN  Outcome(s.ok, s.err, TRUE, s.store)

----------------------------------------------------------------------------
(* The interactive batch driver: handlePost of the two suitelets.          *)
(* selected_variances is held as the sequence its split(',') gives, each   *)
(* update as the sequence of fields its split('|') gives.                  *)

\* var batchSize = 5 (IR/VB suitelet), var batchSize = 10 (PO/VB suitelet)
batchSizeIR == 5
batchSizePO == 10
batchSize(v) == IF v = "IR" THEN batchSizeIR ELSE batchSizePO

\* the Record Mutator call one update makes
\* IR: parts = irId | poLineId | newRate | irNumber | itemName | itemId
\* PO: parts = poId | poLineKey | poNumber | itemName
mutate(v, st, parts) ==
    IF v = "IR"
    THEN updateItemReceiptLineRate(st, parts[1], parts[2], parts[6], parts[3])
    ELSE markPOLineReviewed(st, parts[1], parts[2])

\* the entry pushed on updatedRecords
updatedRecord(v, parts) ==
    IF v = "IR"
    THEN [irNumber |-> parts[4], itemName |-> parts[5], newRate |-> parts[3]]
    ELSE [poNumber |-> parts[3], itemName |-> parts[4]]

\* the catch block's message: common cases are replaced by a short text
simplifyError(v, message) ==
    IF Contains(message, "closed period")
    THEN (IF v = "IR" THEN "Period is closed - cannot modify GL impact"
                      ELSE "Period is closed - cannot modify transaction")
    ELSE IF Contains(message, "No lines found")
    THEN (IF v = "IR" THEN "Item not found on Item Receipt"
                      ELSE "Line not found on Purchase Order")
    ELSE IF Contains(message, "governance") \/ Contains(message, "Usage Limit")
    THEN "Script usage limit exceeded"
    ELSE message

\* the entry pushed on errors
errorRecord(v, parts, message) ==
    IF v = "IR"
    THEN [irId |-> parts[1], irNumber |-> parts[4], itemName |-> parts[5],
          error |-> simplifyError(v, message)]
    ELSE [poId |-> parts[1], poNumber |-> parts[3], itemName |-> parts[4],
          error |-> simplifyError(v, message)]

\* var errorMessage = e.message; errorMessage.indexOf(...): when e.message is
\* undefined the catch block itself throws a TypeError, which leaves forEach
catchThrows(message) == message = NoMessage

\* var startIndex = batchIndex * batchSize
startIndex(batchIndex, size) == batchIndex * size

\* var endIndex = Math.min(startIndex + batchSize, allUpdates.length)
endIndex(batchIndex, size, total) == Min(startIndex(batchIndex, size) + size, total)

\* the accumulators of one round before its first item
BatchStart(st) ==
    [store |-> st, successCount |-> 0, errorCount |-> 0, errors |-> <<>>,
     updatedRecords |-> <<>>, tried |-> <<>>, threw |-> FALSE]

\* currentBatch.forEach: items i (0-based) up to end, in order; tried keeps the
\* position and outcome of every Record Mutator call
RECURSIVE processBatch(_, _, _, _, _)
processBatch(v, allUpdates, i, end, acc) ==
    IF i >= end \/ acc.threw THEN acc
    ELSE LET parts == allUpdates[i + 1]
             r == mutate(v, acc.store, parts)
             seen == [acc EXCEPT !.store = r.store,
                                 !.tried = Append(@, [pos |-> i, ok |-> r.ok])]
         IN  IF r.ok
             THEN processBatch(v, allUpdates, i + 1, end,
                    [seen EXCEPT !.successCount = @ + 1,
                                 !.updatedRecords = Append(@, updatedRecord(v, parts))])
             ELSE IF catchThrows(r.err)
             THEN [seen EXCEPT !.errorCount = @ + 1, !.threw = TRUE]
             ELSE processBatch(v, allUpdates, i + 1, end,
                    [seen EXCEPT !.errorCount = @ + 1,
                                 !.errors = Append(@, errorRecord(v, parts, r.err))])

\* the previous count is dropped
totalCountCurrentOnly(previous, current) == current
\* var totalSuccessCount = previousSuccessCount + successCount (and the error count alike)
totalCount(previous, current) == previous + current

\* if (endIndex < allUpdates.length)
moreBatches(batchIndex, size, total) == endIndex(batchIndex, size, total) < total

\* handlePost: what one round does to the store and what it emits.
\* kind "error": the 'No variances selected' redirect; "continue": the continuation
\* redirect; "complete": the terminal summary; "threw": an error left the handler
\* and no redirect was made.
\* The lists travel as JSON text; they are held here as the lists themselves,
\* and the null that errors takes when no item failed as the empty list.
handlePost(v, st, rq) ==
    LET allUpdates == rq.selected_variances
        size == batchSize(v)
    IN  IF allUpdates = <<>>
        THEN [store |-> st, tried |-> <<>>,
              resp |-> [kind |-> "error", error |-> "No variances selected"]]
        ELSE
        LET acc == processBatch(v, allUpdates, startIndex(rq.batch_index, size),
                       endIndex(rq.batch_index, size, Len(allUpdates)), BatchStart(st))
            totalSuccessCount == totalCount(rq.success_count, acc.successCount)
            totalErrorCount == totalCount(rq.error_count, acc.errorCount)
            allErrors == rq.previous_errors \o acc.errors
            allUpdated == rq.previous_updated \o acc.updatedRecords
        IN  [store |-> acc.store, tried |-> acc.tried,
             resp |->
                IF acc.threw THEN [kind |-> "threw"]
                ELSE IF moreBatches(rq.batch_index, size, Len(allUpdates))
                THEN [kind |-> "continue", processing |-> "true",
                      selected_variances |-> allUpdates,
                      batch_index |-> rq.batch_index + 1,
                      success_count |-> totalSuccessCount,
                      error_count |-> totalErrorCount,
                      previous_errors |-> allErrors,
                      previous_updated |-> allUpdated]
                ELSE [kind |-> "complete", updateSuccess |-> "true",
                      successCount |-> totalSuccessCount,
                      errorCount |-> totalErrorCount,
                      errors |-> IF totalErrorCount > 0 THEN allErrors ELSE <<>>,
                      updatedRecords |-> allUpdated]]

----------------------------------------------------------------------------
(* The closed-period adjustment: handleClosedPeriodAdjustment.             *)
(* A Vendor Bill is [lines, expense]; an item line is [item, quantity,     *)
(* rate, department], an expense line [account, amount].                   *)

RECURSIVE SumItemLines(_)
SumItemLines(lines) ==
    IF lines = <<>> THEN 0
    ELSE Head(lines).quantity * Head(lines).rate + SumItemLines(Tail(lines))
RECURSIVE SumExpense(_)
SumExpense(expense) ==
    IF expense = <<>> THEN 0 ELSE Head(expense).amount + SumExpense(Tail(expense))

\* vbRecord.getValue({fieldId: 'total'}): the bill's total, item lines at
\* quantity * rate plus the expense amounts
total(doc) == SumItemLines(doc.lines) + SumExpense(doc.expense)

\* totals c (cents) for which the doubles nearest (c+1)/100 and c/100 differ by
\* more than the double 0.01 does, among the totals within ten cents of 100.00,
\* 105.00, 200.00 and 210.00 (105.01 - 105.00 is 0.010000000000005116;
\* 210.01 - 210.00 is 0.009999999999990905)
OneCentExceeds ==
    {9991, 9992, 9994, 9996, 9997, 9999, 10000, 10002, 10003, 10005, 10007, 10008, 10010,
     10491, 10492, 10494, 10496, 10497, 10499, 10500, 10502, 10503, 10505, 10507, 10508,
     10510, 19992, 19995, 19998, 20001, 20004, 20007, 20010,
     20992, 20995, 20998, 21001, 21004, 21007, 21010}
OneCentCovered ==
    (9990..10010) \cup (10490..10510) \cup (19990..20010) \cup (20990..21010)

\* Math.abs(newTotal - originalTotal) > 0.01 on the two totals as doubles: two
\* cents or more always exceeds, equal totals never do, one cent apart is
\* decided by the rounding of the subtraction
exceedsTolerance(newTotal, originalTotal) ==
    IF Abs(newTotal - originalTotal) = 1
    THEN Min(newTotal, originalTotal) \in OneCentExceeds
    ELSE Abs(newTotal - originalTotal) > 1

\* the first item line whose item is itemId (the loop breaks there), 0 if none
FirstItemLine(lines, itemId) ==
    LET hits == {i \in DOMAIN lines : MatchesItem(lines[i], itemId)}
    IN  IF hits = {} THEN 0 ELSE CHOOSE i \in hits : \A j \in hits : i <= j

\* the department of the bill line taken as it is
cogsDeptOfLine(department) == department

\* var cogsDept = department === '13' ? '13' : (department === '10' ? '10' : '107')
cogsDept(department) ==
    IF department = "13" THEN "13" ELSE IF department = "10" THEN "10" ELSE "107"

\* journalEntry without the sign test: the lines of the adjustment > 0 branch always
journalEntrySignIgnored(adjustmentAmount, department) ==
    <<[account |-> "112", debit |-> 0, credit |-> adjustmentAmount, department |-> ""],
      [account |-> "353", debit |-> adjustmentAmount, credit |-> 0,
       department |-> cogsDept(department)]>>

\* the Journal Entry built in step 6: line 0 on account 112, line 1 on account 353
journalEntry(adjustmentAmount, department) ==
    IF adjustmentAmount > 0
    THEN <<[account |-> "112", debit |-> 0, credit |-> adjustmentAmount, department |-> ""],
           [account |-> "353", debit |-> adjustmentAmount, credit |-> 0,
            department |-> cogsDept(department)]>>
    ELSE <<[account |-> "112", debit |-> Abs(adjustmentAmount), credit |-> 0, department |-> ""],
           [account |-> "353", debit |-> 0, credit |-> Abs(adjustmentAmount),
            department |-> cogsDept(department)]>>

\* what the platform does to the calls of one request: the insert of the expense
\* line, the Vendor Bill save, the Journal Entry save and the load of the saved
\* Journal Entry each work or throw; the request ends at the first throw, so one
\* of them throws or none does
Platforms ==
    {e \in [insertLine : {"ok", "throws"}, vbSave : {"ok", "throws"},
             jeSave : {"ok", "throws"}, jeLoad : {"ok", "throws"}] :
        Cardinality({f \in {"insertLine", "vbSave", "jeSave", "jeLoad"} : e[f] = "throws"}) <= 1}

\* the outcome of one request: the redirect (out, error), the stored bill and
\* Journal Entries after it, and what it did on the way
AdjOutcome(out, error, doc, entries, trace) ==
    [out |-> out, error |-> error, vb |-> doc, je |-> entries, trace |-> trace]
NoTrace ==
    [loaded |-> FALSE, lineFound |-> FALSE, oldRate |-> 0, amount |-> 0, inserted |-> FALSE,
     checked |-> FALSE, originalTotal |-> 0, newTotal |-> 0, vbSaveCalled |-> FALSE,
     vbSaved |-> FALSE, jeSaveCalled |-> FALSE, jeSaved |-> FALSE]

\* saveAndPost with the Journal Entry saved before the Vendor Bill
saveAndPostJournalFirst(stored, vbRecord, entries, adjustmentAmount, department, env, trace) ==
    LET jeRecord == [lines |-> journalEntry(adjustmentAmount, department)]
        t == [trace EXCEPT !.jeSaveCalled = TRUE]
    IN  IF env.jeSave = "throws"
        THEN AdjOutcome("error", "Journal Entry save failed", stored, entries, t)
        ELSE IF env.vbSave = "throws"
        THEN AdjOutcome("error", "Vendor Bill save failed", stored, Append(entries, jeRecord),
                        [t EXCEPT !.jeSaved = TRUE, !.vbSaveCalled = TRUE])
        ELSE AdjOutcome(IF env.jeLoad = "throws" THEN "error" ELSE "success",
                        IF env.jeLoad = "throws" THEN "Journal Entry load failed" ELSE "",
                        vbRecord, Append(entries, jeRecord),
                        [t EXCEPT !.jeSaved = TRUE, !.vbSaveCalled = TRUE, !.vbSaved = TRUE])

\* the steps after the total check: save the Vendor Bill, then create and save
\* the Journal Entry and load it for its number; a throw at any of them goes to
\* the catch block with whatever was saved before it staying saved
saveAndPost(stored, vbRecord, entries, adjustmentAmount, department, env, trace) ==
    IF env.vbSave = "throws"
    THEN AdjOutcome("error", "Vendor Bill save failed", stored, entries,
                    [trace EXCEPT !.vbSaveCalled = TRUE])
    ELSE
    LET t == [trace EXCEPT !.vbSaveCalled = TRUE, !.vbSaved = TRUE, !.jeSaveCalled = TRUE]
        jeRecord == [lines |-> journalEntry(adjustmentAmount, department)]
    IN  IF env.jeSave = "throws"
        THEN AdjOutcome("error", "Journal Entry save failed", vbRecord, entries, t)
        ELSE IF env.jeLoad = "throws"
        THEN AdjOutcome("error", "Journal Entry load failed", vbRecord,
                        Append(entries, jeRecord), [t EXCEPT !.jeSaved = TRUE])
        ELSE AdjOutcome("success", "", vbRecord, Append(entries, jeRecord),
                        [t EXCEPT !.jeSaved = TRUE])

\* handleClosedPeriodAdjustment with the Vendor Bill saved before the total check
handleClosedPeriodAdjustmentSaveBeforeCheck(bills, entries, p, env) ==
    LET vbRate == parseFloat(p.vb_rate)
        irRate == parseFloat(p.ir_rate)
        stored == IF p.vb_id \in DOMAIN bills THEN bills[p.vb_id] ELSE [lines |-> <<>>, expense |-> <<>>]
        i == FirstItemLine(stored.lines, p.item_id)
        t1 == [NoTrace EXCEPT !.loaded = TRUE, !.originalTotal = total(stored)]
    IN  IF p.vb_id \notin DOMAIN bills
        THEN AdjOutcome("error", "That record does not exist", stored, entries, NoTrace)
        ELSE IF i = 0
        THEN AdjOutcome("error", "Item not found on Vendor Bill", stored, entries, t1)
        ELSE
        LET vbRecord == [lines |-> [stored.lines EXCEPT ![i].rate = irRate],
                         expense |-> Append(stored.expense,
                                        [account |-> "112", amount |-> vbRate - irRate])]
            t3 == [t1 EXCEPT !.lineFound = TRUE, !.oldRate = stored.lines[i].rate,
                             !.amount = vbRate - irRate, !.inserted = TRUE, !.checked = TRUE,
                             !.newTotal = total(vbRecord)]
        IN  IF env.insertLine = "throws"
            THEN AdjOutcome("error", "Line insert failed", stored, entries,
                            [t3 EXCEPT !.inserted = FALSE, !.checked = FALSE, !.newTotal = 0])
            ELSE IF exceedsTolerance(total(vbRecord), total(stored))
            THEN AdjOutcome("error", "VB total changed - adjustment cancelled", vbRecord, entries,
                            [t3 EXCEPT !.vbSaveCalled = TRUE, !.vbSaved = TRUE])
            ELSE saveAndPost(stored, vbRecord, entries, vbRate - irRate,
                             stored.lines[i].department, env, t3)

\* handleClosedPeriodAdjustment on the stored bills (bills: id -> bill) and
\* Journal Entries; p holds the request parameters, env what the platform does
handleClosedPeriodAdjustment(bills, entries, p, env) ==
    LET vbRate == parseFloat(p.vb_rate)
        irRate == parseFloat(p.ir_rate)
        stored == IF p.vb_id \in DOMAIN bills THEN bills[p.vb_id] ELSE [lines |-> <<>>, expense |-> <<>>]
        failed(message, trace) ==
            AdjOutcome("error", message, stored, entries, trace)
    IN  IF p.vb_id \notin DOMAIN bills
        THEN failed("That record does not exist", NoTrace)
        ELSE
        LET originalTotal == total(stored)
            i == FirstItemLine(stored.lines, p.item_id)
            t1 == [NoTrace EXCEPT !.loaded = TRUE, !.originalTotal = originalTotal]
        IN  IF i = 0
            THEN failed("Item not found on Vendor Bill", t1)
            ELSE
            LET oldRate == stored.lines[i].rate
                department == stored.lines[i].department
                adjustmentAmount == vbRate - irRate
                vbRecord == [lines |-> [stored.lines EXCEPT ![i].rate = irRate],
                             expense |-> Append(stored.expense,
                                            [account |-> "112", amount |-> adjustmentAmount])]
                newTotal == total(vbRecord)
                t2 == [t1 EXCEPT !.lineFound = TRUE, !.oldRate = oldRate,
                                 !.amount = adjustmentAmount]
                t3 == [t2 EXCEPT !.inserted = TRUE, !.checked = TRUE, !.newTotal = newTotal]
            IN  IF env.insertLine = "throws"
                THEN failed("Line insert failed", t2)
                ELSE IF exceedsTolerance(newTotal, originalTotal)
                THEN failed("VB total changed - adjustment cancelled", t3)
                ELSE saveAndPost(stored, vbRecord, entries, adjustmentAmount, department,
                                 env, t3)

----------------------------------------------------------------------------
(* Specification of the Record Mutator alone: calls with every argument    *)
(* against documents of every line layout.                                 *)

ItemIds == {"7", "8"}
LineKeys == <<"k1", "k2", "k3", "k4", "k5">>
\* ids a caller may pass: the stored documents and one that does not exist
CallIds == DocIds \cup {"3"}

\* line layouts of document "1": up to MaxLines lines, each with item "7", "8" or none
Layouts ==
    UNION {[1..n -> ItemIds \cup {""}] : n \in 0..MaxLines}
LinesOf(layout) == [i \in DOMAIN layout |-> Line(layout[i], LineKeys[((i - 1) % 5) + 1])]

NoCall == [op |-> "none", id |-> "", key |-> "", item |-> "", rate |-> "",
           ok |-> FALSE, err |-> "", saveCalled |-> FALSE, repeat |-> FALSE]
NoReq == [selected_variances |-> <<>>, batch_index |-> 0, success_count |-> 0,
          error_count |-> 0, previous_errors |-> <<>>, previous_updated |-> <<>>]
NoResp == [kind |-> "none"]
NoHist == [op |-> "none", rounds |-> 0, attempts |-> <<>>, round |-> <<>>]
NoVB == [lines |-> <<>>, expense |-> <<>>]
NoAdj == [out |-> "none"]
NoRun == [phase |-> "none"]
NoPairs == [fetched |-> FALSE, list |-> <<>>]
NoPage == [shown |-> FALSE]

BatchIdle ==
    /\ req = NoReq /\ lastReq = NoReq /\ resp = NoResp /\ hist = NoHist
AdjIdle ==
    /\ vb = NoVB /\ je = <<>> /\ adj = NoAdj
RunIdle ==
    /\ run = NoRun
SearchIdle ==
    /\ rows = <<>> /\ pairs = NoPairs
PageIdle ==
    /\ page = NoPage

InitMut ==
    /\ variant \in {"IR", "PO"}
    /\ \E layout \in Layouts, f \in Faults :
          store = [d \in DocIds |->
                     IF d = "1" THEN [lines |-> LinesOf(layout), fault |-> f]
                     ELSE [lines |-> LinesOfDoc2, fault |-> "none"]]
    /\ call = NoCall
    /\ BatchIdle /\ AdjIdle /\ RunIdle /\ SearchIdle /\ PageIdle

\* history: this call has the arguments of the call before it, and that one succeeded
Repeats(op, id, key, item, rate) ==
    /\ call.ok
    /\ call.op = op /\ call.id = id /\ call.key = key /\ call.item = item /\ call.rate = rate

\* one call of updateItemReceiptLineRate (IR/VB suitelet and scheduled script)
CallUpdateRate ==
    /\ variant = "IR"
    /\ \E irId \in CallIds, itemId \in ItemIds, newRate \in RateStrings :
          LET r == updateItemReceiptLineRate(store, irId, "k1", itemId, newRate)
          IN  /\ store' = r.store
              /\ call' = [op |-> "rate", id |-> irId, key |-> "k1", item |-> itemId,
                           rate |-> newRate, ok |-> r.ok, err |-> r.err,
                           saveCalled |-> r.saveCalled,
                           repeat |-> Repeats("rate", irId, "k1", itemId, newRate)]
    /\ UNCHANGED <<variant, req, lastReq, resp, hist, vb, je, adj, run, rows, pairs, page>>

\* one call of markPOLineReviewed (PO/VB suitelet)
CallMarkReviewed ==
    /\ variant = "PO"
    /\ \E poId \in CallIds, poLineKey \in {"k1", "k2", "k4"} :
          LET r == markPOLineReviewed(store, poId, poLineKey)
          IN  /\ store' = r.store
              /\ call' = [op |-> "review", id |-> poId, key |-> poLineKey, item |-> "",
                           rate |-> "", ok |-> r.ok, err |-> r.err,
                           saveCalled |-> r.saveCalled,
                           repeat |-> Repeats("review", poId, poLineKey, "", "")]
    /\ UNCHANGED <<variant, req, lastReq, resp, hist, vb, je, adj, run, rows, pairs, page>>

NextMut == CallUpdateRate \/ CallMarkReviewed
SpecMut == InitMut /\ [][NextMut]_vars

\* the lines of a stored document that a call's arguments match
MatchedLines(st, c) ==
    IF c.id \notin DOMAIN st THEN {}
    ELSE {i \in DOMAIN st[c.id].lines :
            IF c.op = "rate" THEN st[c.id].lines[i].item # "" /\ st[c.id].lines[i].item = c.item
            ELSE st[c.id].lines[i].key = c.key}

\* C7: a second invocation of the Record Mutator with the same document, key,
\* item and target value, after a first one that succeeded, succeeds too and
\* leaves every stored line of every document as the first invocation left it.
C7_SecondCallIdempotent ==
    [][call'.repeat => (call'.ok /\ store' = store)]_vars
\* C7 witness: a repeated call on an already-updated document has run and succeeded.
C7_Witness ==
    /\ call.repeat /\ call.ok
    /\ MatchedLines(store, call) # {}

\* C8: when no line of the loaded document matches the requested item (IR) or
\* line key (PO), the mutator raises the 'No lines found' error, does not call
\* save, and the stored documents are unchanged.
C8_NotFoundNoSave ==
    [][(call'.op # "none" /\ call'.id \in DocIds /\ MatchedLines(store, call') = {})
        => (/\ ~call'.ok
            /\ call'.err = (IF call'.op = "rate" THEN NotFoundIR ELSE NotFoundPO)
            /\ Contains(call'.err, "No lines found")
            /\ ~call'.saveCalled
            /\ store' = store)]_vars
\* C8 witness: a call on a stored document with lines, none of which matches, has failed.
C8_Witness ==
    /\ call.op # "none" /\ call.id \in DocIds
    /\ store[call.id].lines # <<>>
    /\ MatchedLines(store, call) = {}
    /\ ~call.ok

----------------------------------------------------------------------------
(* The batch protocol: a first submission, then every emitted continuation *)
(* is submitted as the next round.                                         *)

\* display fields of the selection tuples
irNumber(id) == IF id = "1" THEN "IR101" ELSE "IR102"
itemName(item) == IF item = "7" THEN "Range" ELSE "Hood"

\* the updates an operator can select
UpdatesIR ==
    {<<d, "k1", r, irNumber(d), itemName(it), it>> :
        d \in DocIds, r \in RateStrings, it \in ItemIds}
UpdatesPO ==
    {<<d, k, IF d = "1" THEN "PO201" ELSE "PO202", "Range">> : d \in DocIds, k \in {"k1", "k4"}}
Updates(v) == IF v = "IR" THEN UpdatesIR ELSE UpdatesPO

\* selections: n updates repeating a pattern of one or two updates
Pattern(base, n) == [i \in 1..n |-> base[((i - 1) % Len(base)) + 1]]
Selections(v) ==
    {Pattern(base, n) : base \in UNION {[1..k -> Updates(v)] : k \in 1..2}, n \in 0..MaxSel}

\* the first submission: the form posts selected_variances only; batch_index,
\* success_count, error_count and the two lists take their defaults
FirstSubmission(sel) ==
    [selected_variances |-> sel, batch_index |-> 0, success_count |-> 0,
     error_count |-> 0, previous_errors |-> <<>>, previous_updated |-> <<>>]

\* the request a continuation redirect leads to
Continuation(r) ==
    [selected_variances |-> r.selected_variances, batch_index |-> r.batch_index,
     success_count |-> r.success_count, error_count |-> r.error_count,
     previous_errors |-> r.previous_errors, previous_updated |-> r.previous_updated]

InitBatch ==
    /\ variant \in {"IR", "PO"}
    /\ \E f \in [DocIds -> Faults] :
          store = [d \in DocIds |->
                     [lines |-> IF d = "1" THEN LinesOfDoc1 ELSE LinesOfDoc2, fault |-> f[d]]]
    /\ \E sel \in Selections(variant) : req = FirstSubmission(sel)
    /\ lastReq = NoReq /\ resp = NoResp /\ hist = NoHist
    /\ call = NoCall
    /\ AdjIdle /\ RunIdle /\ SearchIdle /\ PageIdle

\* positions of the Record Mutator calls a round made
Positions(tried) == [k \in DOMAIN tried |-> tried[k].pos]

\* what a round leaves behind: the store and the response of handlePost, the
\* request it ran on, the next request in flight and the record of the round
roundTaken(r, request, op) ==
    /\ store' = r.store
    /\ resp' = r.resp
    /\ lastReq' = request
    /\ req' = IF r.resp.kind = "continue" THEN Continuation(r.resp) ELSE req
    /\ hist' = [op |-> op,
                rounds |-> IF op = "submit" THEN hist.rounds + 1 ELSE hist.rounds,
                attempts |-> IF op = "submit" THEN hist.attempts \o Positions(r.tried)
                             ELSE hist.attempts,
                round |-> r.tried]

\* one round: handlePost on the request in flight
Submit ==
    /\ resp.kind \in {"none", "continue"}
    /\ roundTaken(handlePost(variant, store, req), req, "submit")
    /\ UNCHANGED <<variant, call, vb, je, adj, run, rows, pairs, page>>

\* the round that ran last is submitted again with the same parameters
Retry ==
    /\ hist.rounds > 0
    /\ roundTaken(handlePost(variant, store, lastReq), lastReq, "retry")
    /\ UNCHANGED <<variant, call, vb, je, adj, run, rows, pairs, page>>

NextBatch == Submit
Spec == InitBatch /\ [][NextBatch]_vars

NextRetry == Submit \/ Retry
SpecRetry == InitBatch /\ [][NextRetry]_vars

----------------------------------------------------------------------------
(* Properties of the batch driver *)

\* the positions a, a+1, ..., b-1 in order (none when b <= a)
SeqRange(a, b) == [k \in 1..(b - a) |-> a + k - 1]

\* the round that ran last: its batch index, selection size, window size and window end
LastB == lastReq.batch_index
LastN == Len(lastReq.selected_variances)
LastS == IF variant = "IR" THEN 5 ELSE 10
LastEnd == Min((LastB + 1) * LastS, LastN)
\* Record Mutator calls of the last round that succeeded / failed
LastOk == {k \in DOMAIN hist.round : hist.round[k].ok}
LastFailed == {k \in DOMAIN hist.round : ~hist.round[k].ok}
\* the cumulative error list a round's output carries
ErrorsCarried(r) == IF r.kind = "continue" THEN r.previous_errors ELSE r.errors

\* C1: a round with batch index b over n items and window size s (5 or 10)
\* calls the Record Mutator on exactly the positions [b*s, min((b+1)*s, n)),
\* in selection order, and on no other item.
C1_RoundAttemptsItsWindow ==
    hist.rounds > 0 => Positions(hist.round) = SeqRange(LastB * LastS, LastEnd)

\* C1, for the rounds no error leaves: these attempt exactly their window.
C1_WindowAttemptedUnlessThrown ==
    (hist.rounds > 0 /\ resp.kind # "threw")
        => Positions(hist.round) = SeqRange(LastB * LastS, LastEnd)

\* C2: every round emits exactly one of the continuation (processing 'true',
\* batch_index b+1, the same selection, the new cumulative counts and lists) and
\* the terminal summary (updateSuccess 'true'), the continuation if and only if
\* the window end is strictly before the end of the selection.
C2_ContinuationIffWindowEndsEarly ==
    (hist.rounds > 0 /\ LastN > 0) =>
        /\ resp.kind \in {"continue", "complete"}
        /\ resp.kind = "continue" <=> LastEnd < LastN
        /\ resp.kind = "continue" =>
              /\ resp.processing = "true"
              /\ resp.batch_index = LastB + 1
              /\ resp.selected_variances = lastReq.selected_variances
              /\ resp.success_count = lastReq.success_count + Cardinality(LastOk)
              /\ resp.error_count = lastReq.error_count + Cardinality(LastFailed)
              /\ Len(resp.previous_updated) = Len(lastReq.previous_updated) + Cardinality(LastOk)
              /\ Len(resp.previous_errors) = Len(lastReq.previous_errors) + Cardinality(LastFailed)
        /\ resp.kind = "complete" =>
              /\ resp.updateSuccess = "true"
              /\ resp.successCount = lastReq.success_count + Cardinality(LastOk)
              /\ resp.errorCount = lastReq.error_count + Cardinality(LastFailed)

\* C2, for the rounds no error leaves: one of the two is emitted, the
\* continuation exactly when the window ends before the selection does.
C2_DecisionUnlessThrown ==
    (hist.rounds > 0 /\ LastN > 0 /\ resp.kind # "threw") =>
        /\ resp.kind \in {"continue", "complete"}
        /\ resp.kind = "continue" <=> LastEnd < LastN

\* C3: from the first submission of n >= 1 items, following every continuation,
\* the protocol is either still on its way (a continuation is in flight and
\* fewer than ceil(n/s) rounds have run) or at the terminal summary after
\* exactly ceil(n/s) rounds with every item attempted once, in selection order.
C3_SummaryAfterCeilRounds ==
    LET n == Len(req.selected_variances)
        rounds == (n + LastS - 1) \div LastS
    IN  n >= 1 =>
          \/ resp.kind \in {"none", "continue"} /\ hist.rounds < rounds
          \/ /\ resp.kind = "complete"
             /\ hist.rounds = rounds
             /\ hist.attempts = SeqRange(0, n)

\* C4: when the Record Mutator fails on an item of a round, whatever it throws,
\* the failure becomes one error record of the cumulative list, every item of
\* the window is still attempted, and the round ends with a continuation or a
\* terminal summary.
C4_ItemFailureIsolated ==
    (hist.rounds > 0 /\ LastFailed # {}) =>
        /\ Positions(hist.round) = SeqRange(LastB * LastS, LastEnd)
        /\ resp.kind \in {"continue", "complete"}
        /\ Len(ErrorsCarried(resp)) = Len(lastReq.previous_errors) + Cardinality(LastFailed)

\* C4, for thrown errors that carry a message: the failure is recorded and the
\* rest of the window is attempted.
C4_IsolatedWhenMessagePresent ==
    (hist.rounds > 0 /\ LastFailed # {} /\ resp.kind # "threw") =>
        /\ Positions(hist.round) = SeqRange(LastB * LastS, LastEnd)
        /\ Len(ErrorsCarried(resp)) = Len(lastReq.previous_errors) + Cardinality(LastFailed)

\* C5: the progress carried by a request in flight at the start of round b has
\* success_count + error_count = min(b*s, n), as many updated records as
\* successes and as many error records as errors; the terminal summary has
\* successCount + errorCount = n.
C5_ProgressCounts ==
    /\ resp.kind \in {"none", "continue"} =>
          /\ req.success_count + req.error_count
                = Min(req.batch_index * LastS, Len(req.selected_variances))
          /\ Len(req.previous_updated) = req.success_count
          /\ Len(req.previous_errors) = req.error_count
    /\ resp.kind = "complete" =>
          resp.successCount + resp.errorCount = Len(lastReq.selected_variances)
\* C5 witness: a terminal summary after several rounds with successes and errors.
C5_Witness ==
    /\ resp.kind = "complete" /\ hist.rounds >= 2
    /\ resp.successCount > 0 /\ resp.errorCount > 0
    /\ lastReq.success_count > 0 /\ lastReq.error_count > 0

\* the last successful call of the round for the document and item (or line key) of call k
LastWriter(k) ==
    \A j \in LastOk : j > k =>
        LET pk == lastReq.selected_variances[hist.round[k].pos + 1]
            pj == lastReq.selected_variances[hist.round[j].pos + 1]
        IN  pj[1] # pk[1] \/ (IF variant = "IR" THEN pj[6] # pk[6] ELSE pj[2] # pk[2])
\* the lines call k targets hold the value it wrote
HoldsTarget(k) ==
    LET parts == lastReq.selected_variances[hist.round[k].pos + 1]
        lines == store[parts[1]].lines
    IN  IF variant = "IR"
        THEN \A i \in DOMAIN lines :
                lines[i].item = parts[6] => lines[i].rate = parseFloat(parts[3])
        ELSE \E i \in DOMAIN lines : lines[i].key = parts[2] /\ lines[i].reviewed

\* C6: a round submitted again with the same batch index and continuation state
\* leaves every stored line as the first run left it, emits the same output
\* with the same cumulative counts, and every targeted line holds its target.
C6_RetryIdempotent ==
    [][hist'.op = "retry" =>
          /\ store' = store
          /\ resp' = resp
          /\ \A k \in DOMAIN hist'.round :
                (hist'.round[k].ok /\ LastWriter(k)') => HoldsTarget(k)']_vars
\* C6 witness: a retried round that updated documents and carried tallies on.
C6_Witness ==
    /\ hist.op = "retry"
    /\ resp.kind = "continue"
    /\ LastOk # {} /\ LastFailed # {}
    /\ \E d \in DocIds : \E i \in DOMAIN store[d].lines :
          store[d].lines[i].rate # 900 \/ store[d].lines[i].reviewed

----------------------------------------------------------------------------
(* Specification of the closed-period adjustment: requests with every      *)
(* parameter against Vendor Bill "50".                                     *)

\* the departments of the bill's item line: "" is a line without department
Departments == {"13", "10", "5", ""}

\* the bill as first stored: one line of item "7", quantity 1 or 2, at 105.00
\* or 100.00; Item Receipt "1" is the receipt paired with it, its period open
\* (fault "none") or locked (fault "closed")
InitAdj ==
    /\ \E q \in {1, 2}, r \in {10000, 10500}, d \in Departments :
          vb = [lines |-> <<[item |-> "7", quantity |-> q, rate |-> r, department |-> d]>>,
                expense |-> <<>>]
    /\ je = <<>>
    /\ adj = NoAdj
    /\ variant = "IR"
    /\ \E f \in {"none", "closed"} :
          store = [d \in DocIds |-> [lines |-> IF d = "1" THEN LinesOfDoc1 ELSE <<>>,
                                     fault |-> IF d = "1" THEN f ELSE "none"]]
    /\ call = NoCall
    /\ BatchIdle /\ RunIdle /\ SearchIdle /\ PageIdle

\* the requests: item "7" of bill "50" with every pair of rates, an item the
\* bill does not carry ("9") and a bill that does not exist ("51")
AdjRequests ==
    [vb_id : {"50"}, item_id : {"7"},
     vb_rate : {"105.00", "105.01", "105.02", "100.00"}, ir_rate : {"100.00", "105.00"}]
    \cup [vb_id : {"50"}, item_id : {"9"}, vb_rate : {"105.00"}, ir_rate : {"100.00"}]
    \cup [vb_id : {"51"}, item_id : {"7"}, vb_rate : {"105.00"}, ir_rate : {"100.00"}]

\* isPeriodClosed of the search: the posting period of the receipt is closed or locked
isPeriodClosed(receipt) == receipt.fault = "closed"

\* the row's Closed Period Adjustment button is enabled only if the period is closed
actionButtonEnabled(ir_period_closed) == ir_period_closed

\* one POST with action = closed_period_adjustment, sent by the button of a page
\* just rendered or sent as a request of its own; handlePost reads the action
\* parameter alone
Adjust ==
    /\ Len(vb.expense) < MaxAdjustments
    /\ \E p \in AdjRequests, env \in Platforms, via \in {"button", "post"} :
          /\ via = "button" => actionButtonEnabled(isPeriodClosed(store["1"]))
          /\ LET bills == [id \in {"50"} |-> vb]
                 r == handleClosedPeriodAdjustment(bills, je, p, env)
             IN  /\ vb' = IF p.vb_id \in DOMAIN bills THEN r.vb ELSE vb
                 /\ je' = r.je
                 /\ adj' = [out |-> r.out, error |-> r.error, request |-> p, via |-> via,
                             trace |-> r.trace]
    /\ UNCHANGED <<variant, store, call, req, lastReq, resp, hist, run, rows, pairs, page>>

NextAdj == Adjust
SpecAdj == InitAdj /\ [][NextAdj]_vars

\* every one-cent comparison made is one the table of doubles covers
ToleranceTableCovers ==
    (adj.out # "none" /\ adj.trace.checked
        /\ Abs(adj.trace.newTotal - adj.trace.originalTotal) = 1)
        => Min(adj.trace.newTotal, adj.trace.originalTotal) \in OneCentCovered

\* C10: when the total re-read after the rate overwrite and the expense line
\* differs from the total recorded at load by more than 0.01, the procedure
\* ends in the error outcome without calling the Vendor Bill save and without
\* creating a Journal Entry; a difference of 0.01 or less does not abort.
C10_AbortOnlyBeyondOneCent ==
    (adj.out # "none" /\ adj.trace.checked) =>
        /\ Abs(adj.trace.newTotal - adj.trace.originalTotal) > 1 =>
              /\ adj.out = "error"
              /\ ~adj.trace.vbSaveCalled
              /\ ~adj.trace.jeSaveCalled
        /\ Abs(adj.trace.newTotal - adj.trace.originalTotal) <= 1 => adj.trace.vbSaveCalled

\* C10, the abort alone: a difference of more than 0.01 ends in the error
\* outcome with neither save called, and the stored bill and entries unchanged.
C10_AbortBeyondOneCent ==
    [][(adj'.out # "none" /\ adj'.trace.checked
          /\ Abs(adj'.trace.newTotal - adj'.trace.originalTotal) > 1)
        => (/\ adj'.out = "error"
            /\ ~adj'.trace.vbSaveCalled /\ ~adj'.trace.jeSaveCalled
            /\ vb' = vb /\ je' = je)]_vars

\* C11: overwriting the item line's rate with the IR rate and appending one
\* expense line of the rate difference leaves the Vendor Bill total (item lines
\* at quantity * rate plus expense amounts) unchanged, for every quantity and
\* every pair of rates. Stated for the requests whose expense amount is the
\* line's old rate minus the IR rate.
C11_RateEditNetsToZero ==
    (/\ adj.out # "none" /\ adj.trace.checked
     /\ adj.trace.amount = adj.trace.oldRate - parseFloat(adj.request.ir_rate))
        => adj.trace.newTotal = adj.trace.originalTotal

\* C11, quantity one: with the old rate minus the IR rate as the amount, every
\* adjustment of a bill whose lines all have quantity 1 re-reads the same total.
C11_NetsToZeroAtQuantityOne ==
    (/\ adj.out # "none" /\ adj.trace.checked
     /\ adj.trace.amount = adj.trace.oldRate - parseFloat(adj.request.ir_rate)
     /\ \A i \in DOMAIN vb.lines : vb.lines[i].quantity = 1)
        => adj.trace.newTotal = adj.trace.originalTotal

\* C12: the amount of the expense line and of the Journal Entry is the rate
\* stored on the item line before the overwrite minus the IR rate, signed.
\* Stated for the adjustments that succeed.
C12_AmountIsOldRateMinusNewRate ==
    adj.out = "success" =>
        adj.trace.amount = adj.trace.oldRate - parseFloat(adj.request.ir_rate)

\* C13: every Journal Entry the adjustment creates has exactly two lines, on
\* account 112 then 353, with debits and credits both totalling the absolute
\* value of the amount of the expense line saved with it; an amount above zero
\* credits 112 and debits 353, any other amount debits 112 and credits 353.
C13_JournalEntryBalanced ==
    [][je' # je =>
        LET e == je'[Len(je')].lines
            a == vb'.expense[Len(vb'.expense)].amount
        IN  /\ Len(je') = Len(je) + 1
            /\ Len(e) = 2
            /\ e[1].account = "112" /\ e[2].account = "353"
            /\ e[1].debit + e[2].debit = Abs(a)
            /\ e[1].credit + e[2].credit = Abs(a)
            /\ IF a > 0
               THEN /\ e[1].credit = a /\ e[1].debit = 0
                    /\ e[2].debit = a /\ e[2].credit = 0
               ELSE /\ e[1].debit = Abs(a) /\ e[1].credit = 0
                    /\ e[2].credit = Abs(a) /\ e[2].debit = 0]_vars
\* C13 witness: an adjustment of a negative amount has succeeded and its Journal Entry is stored.
C13_Witness ==
    /\ adj.out = "success" /\ adj.trace.amount < 0
    /\ je # <<>>

\* the request failed at one of steps 1-5: the load, the search for the item
\* line, the insert of the expense line or the total check
FailedBeforeSave(t) ==
    \/ ~t.loaded \/ ~t.lineFound \/ ~t.inserted
    \/ exceedsTolerance(t.newTotal, t.originalTotal)

\* C14: an adjustment that fails at the load, at the search for the item line,
\* at the insert of the expense line or at the total check ends in the error
\* redirect with the Vendor Bill save never called, the stored bill as it was
\* and no Journal Entry created.
C14_FailureBeforeSaveLeavesNothing ==
    [][(adj'.out # "none" /\ FailedBeforeSave(adj'.trace)) =>
        /\ adj'.out = "error"
        /\ adj'.error \in {"That record does not exist", "Item not found on Vendor Bill",
                            "Line insert failed", "VB total changed - adjustment cancelled"}
        /\ ~adj'.trace.vbSaveCalled /\ ~adj'.trace.jeSaveCalled
        /\ vb' = vb /\ je' = je]_vars
\* C14 witness: a request has failed the total check after the rate overwrite
\* and the expense line were made in memory, and the stored bill has no expense line.
C14_Witness ==
    /\ adj.out = "error" /\ adj.trace.checked /\ ~adj.trace.vbSaveCalled
    /\ adj.trace.newTotal # adj.trace.originalTotal
    /\ vb.expense = <<>> /\ je = <<>>

\* C15: the Journal Entry save is called only after the Vendor Bill save has
\* succeeded; when the Journal Entry save fails, the bill stays stored with the
\* IR rate on the item line and the new expense line, no Journal Entry is
\* stored, and the outcome is the error redirect.
C15_JournalOnlyAfterBillSaved ==
    [][adj'.out # "none" =>
        /\ adj'.trace.jeSaveCalled => adj'.trace.vbSaved
        /\ (adj'.trace.jeSaveCalled /\ ~adj'.trace.jeSaved) =>
              LET i == FirstItemLine(vb.lines, adj'.request.item_id)
              IN  /\ adj'.out = "error"
                  /\ je' = je
                  /\ vb'.lines = [vb.lines EXCEPT ![i].rate = parseFloat(adj'.request.ir_rate)]
                  /\ vb'.expense = Append(vb.expense,
                                       [account |-> "112", amount |-> adj'.trace.amount])]_vars
\* C15 witness: the Journal Entry save has failed after the bill was saved with its expense line.
C15_Witness ==
    /\ adj.out = "error" /\ adj.trace.vbSaved
    /\ adj.trace.jeSaveCalled /\ ~adj.trace.jeSaved
    /\ vb.expense # <<>> /\ je = <<>>

\* C16: the procedure changes a Vendor Bill only when the direct update of the
\* corresponding receipt is rejected because its period is locked; a request
\* for an item whose period is open never runs it.
C16_AdjustedOnlyWhenPeriodLocked ==
    (adj.out # "none" /\ adj.trace.vbSaved) => isPeriodClosed(store["1"])

\* C16, the button alone: a request sent by the page's button is for a row
\* whose period is closed.
C16_ButtonOnlyWhenPeriodLocked ==
    (adj.out # "none" /\ adj.via = "button") => isPeriodClosed(store["1"])

----------------------------------------------------------------------------
(* The scheduled script: execute, one step per call of the forEach callback *)

\* if (remainingUsage < 100)
GovernanceMargin == 100

\* what scriptObj.getRemainingUsage() returns at the first check, and the units
\* one call of the Record Mutator consumes (a load, or a load and a save)
InitialUnits == {90, 100, 120, 150, 10000}
UnitsPerItem == {10, 30}

\* the string JavaScript makes of a number (rates in cents): 12.5 is "12.5", 10 is "10"
numberString(x) ==
    CASE x = 1000 -> "10"
      [] x = 1250 -> "12.5"
      [] x = 10000 -> "100"
      [] x = 10500 -> "105"
      [] x = 10501 -> "105.01"
      [] x = 10502 -> "105.02"

\* e.toString() of a thrown value that has no message
ObjectString == "[object Object]"

\* a variance pair as execute reads it
SchedPair(d, it, r) ==
    [ir_id |-> d, ir_line_id |-> "k1", item_id |-> it, ir_number |-> irNumber(d),
     item_name |-> itemName(it), ir_rate |-> 900, vb_rate |-> r, vb_number |-> "VB50"]

\* the lists getVariancePairs may return: up to MaxPairs pairs on receipts "1"
\* and "2", on an item receipt "1" does not carry ("9") and on a receipt that
\* no longer exists ("3")
SchedBases ==
    {<<SchedPair("1", "7", 1250)>>,
     <<SchedPair("1", "7", 1250), SchedPair("2", "8", 1000)>>,
     <<SchedPair("1", "9", 1000), SchedPair("1", "7", 1250)>>,
     <<SchedPair("2", "8", 1000), SchedPair("3", "7", 1250), SchedPair("1", "7", 1000)>>}
SchedPairLists == {Pattern(base, n) : base \in SchedBases, n \in 0..MaxPairs}

NoResults ==
    [totalFound |-> 0, processed |-> 0, successCount |-> 0, errorCount |-> 0,
     closedPeriodCount |-> 0, errors |-> <<>>, updated |-> <<>>, closedPeriod |-> <<>>,
     skipped |-> <<>>]

\* the records pushed on results.updated, results.closedPeriod and results.errors
updatedEntry(pair) ==
    [irNumber |-> pair.ir_number, irId |-> pair.ir_id, itemName |-> pair.item_name,
     oldRate |-> pair.ir_rate, newRate |-> pair.vb_rate,
     variance |-> pair.vb_rate - pair.ir_rate, vbNumber |-> pair.vb_number]
closedPeriodEntry(pair) ==
    [irNumber |-> pair.ir_number, irId |-> pair.ir_id, itemName |-> pair.item_name,
     vbNumber |-> pair.vb_number, oldRate |-> pair.ir_rate, newRate |-> pair.vb_rate,
     variance |-> pair.vb_rate - pair.ir_rate, reason |-> "Period is closed"]
errorEntry(pair, errorMessage) ==
    [irNumber |-> pair.ir_number, irId |-> pair.ir_id, itemName |-> pair.item_name,
     vbNumber |-> pair.vb_number, error |-> simplifyError("IR", errorMessage),
     fullError |-> errorMessage]

\* one call of the forEach callback on the pair at position r.next, consuming
\* units if the Record Mutator is called. The return of the governance branch
\* ends this call only: forEach goes on to the next pair.
\* r.lowSeen, r.afterLow and r.mutated are history: the allowance has been seen
\* below the margin, the calls made after the one that saw it first, and the
\* positions passed to the Record Mutator.
forEachCallback(r, st, units) ==
    LET pair == r.variancePairs[r.next]
        seen == [r EXCEPT !.next = @ + 1,
                          !.afterLow = IF r.lowSeen THEN @ + 1 ELSE @]
    IN  IF r.remainingUsage < GovernanceMargin
        THEN [store |-> st,
              run |-> [seen EXCEPT
                         !.lowSeen = TRUE,
                         !.results.skipped =
                             Append(@, [reason |-> "Governance limit reached",
                                        count |-> Len(r.variancePairs) - r.results.processed])]]
        ELSE
        LET m == updateItemReceiptLineRate(st, pair.ir_id, pair.ir_line_id, pair.item_id,
                                           numberString(pair.vb_rate))
            errorMessage == IF m.err = NoMessage THEN ObjectString ELSE m.err
            counted == [seen EXCEPT !.results.processed = @ + 1,
                                    !.remainingUsage = @ - units,
                                    !.mutated = Append(@, r.next)]
        IN  [store |-> m.store,
             run |-> IF m.ok
                     THEN [counted EXCEPT !.results.successCount = @ + 1,
                                          !.results.updated = Append(@, updatedEntry(pair))]
                     ELSE IF Contains(errorMessage, "closed period")
                     THEN [counted EXCEPT !.results.closedPeriodCount = @ + 1,
                                          !.results.closedPeriod =
                                              Append(@, closedPeriodEntry(pair))]
                     ELSE [counted EXCEPT !.results.errorCount = @ + 1,
                                          !.results.errors =
                                              Append(@, errorEntry(pair, errorMessage))]]

InitSched ==
    /\ variant = "IR"
    /\ \E f1 \in Faults, f2 \in Faults :
          store = [d \in DocIds |->
                     IF d = "1" THEN [lines |-> LinesOfDoc1, fault |-> f1]
                     ELSE [lines |-> LinesOfDoc2, fault |-> f2]]
    /\ call = NoCall
    /\ BatchIdle /\ AdjIdle /\ RunIdle /\ SearchIdle /\ PageIdle

\* execute up to the forEach: the pairs are fetched and counted; with no pair
\* the script returns at once
StartRun ==
    /\ run.phase = "none"
    /\ \E variancePairs \in SchedPairLists, u \in InitialUnits :
          run' = [phase |-> IF Len(variancePairs) = 0 THEN "done" ELSE "loop",
                  variancePairs |-> variancePairs, next |-> 1, remainingUsage |-> u,
                  results |-> [NoResults EXCEPT !.totalFound = Len(variancePairs)],
                  lowSeen |-> FALSE, afterLow |-> 0, mutated |-> <<>>]
    /\ UNCHANGED <<variant, store, call, req, lastReq, resp, hist, vb, je, adj, rows, pairs, page>>

\* forEach calls the callback on the next pair
ProcessPair ==
    /\ run.phase = "loop"
    /\ run.next <= Len(run.variancePairs)
    /\ \E units \in UnitsPerItem :
          LET r == forEachCallback(run, store, units)
          IN  /\ run' = r.run
              /\ store' = r.store
    /\ UNCHANGED <<variant, call, req, lastReq, resp, hist, vb, je, adj, rows, pairs, page>>

\* forEach has returned: the summary is logged
FinishRun ==
    /\ run.phase = "loop"
    /\ run.next > Len(run.variancePairs)
    /\ run' = [run EXCEPT !.phase = "done"]
    /\ UNCHANGED <<variant, store, call, req, lastReq, resp, hist, vb, je, adj, rows, pairs, page>>

NextSched == StartRun \/ ProcessPair \/ FinishRun
SpecSched == InitSched /\ [][NextSched]_vars

\* C17: the allowance is checked before each pair, and once it is seen below
\* 100 units processing stops at once: no further pair is passed to the Record
\* Mutator and the callback is not called on the pairs that remain.
C17_StopsWhenAllowanceLow ==
    run.phase \in {"loop", "done"} => run.afterLow = 0

\* C17, the Record Mutator alone: once the allowance has been seen below 100
\* units no pair is passed to the Record Mutator and no record changes.
C17_NoMutationWhenAllowanceLow ==
    [][(run.phase = "loop" /\ run.lowSeen) =>
        (run'.mutated = run.mutated /\ store' = store)]_vars

RECURSIVE SumCounts(_)
SumCounts(skipped) ==
    IF skipped = <<>> THEN 0 ELSE Head(skipped).count + SumCounts(Tail(skipped))

\* C18: at the end of every run the counts of the skipped records add up to
\* the pairs found less the pairs processed: each unprocessed pair is recorded
\* as skipped exactly once.
C18_SkippedCountsAddUp ==
    run.phase = "done" =>
        run.results.processed + SumCounts(run.results.skipped) = run.results.totalFound

\* C18, record by record: each skipped record holds the number of pairs not processed.
C18_EachRecordHoldsTheRemainder ==
    run.phase \in {"loop", "done"} =>
        \A i \in DOMAIN run.results.skipped :
            run.results.skipped[i].count = run.results.totalFound - run.results.processed

----------------------------------------------------------------------------
(* Grouping and pairing: groupByPOLine and createVariancePairs. The copies  *)
(* of the IR/VB suitelet and of the scheduled script are the same but for   *)
(* the threshold, which the suitelet fixes at 0.01.                         *)

\* var MIN_VARIANCE = 0.01 (one cent)
MIN_VARIANCE == 1

\* new Date(s) of the date strings of the rows, as a day number
newDate(s) ==
    CASE s = "12/20/2023" -> 20231220
      [] s = "1/5/2024" -> 20240105
      [] s = "1/9/2024" -> 20240109
      [] s = "2/1/2024" -> 20240201

\* the date an entry of itemReceipts ("ir") or vendorBills ("vb") is sorted by
dateOf(entry, side) == IF side = "ir" THEN entry.ir_date ELSE entry.vb_date

\* the entry placed before the entries of its own date
insertByDateBeforeEqual(list, x, side) ==
    LET older == {i \in DOMAIN list : newDate(dateOf(list[i], side)) < newDate(dateOf(x, side))}
        n == IF older = {} THEN 0 ELSE CHOOSE i \in older : \A j \in older : j <= i
    IN  SubSeq(list, 1, n) \o <<x>> \o SubSeq(list, n + 1, Len(list))

\* the list with entry x placed behind every entry not younger than x
insertByDate(list, x, side) ==
    LET notYounger == {i \in DOMAIN list : newDate(dateOf(list[i], side)) <= newDate(dateOf(x, side))}
        n == IF notYounger = {} THEN 0 ELSE CHOOSE i \in notYounger : \A j \in notYounger : j <= i
    IN  SubSeq(list, 1, n) \o <<x>> \o SubSeq(list, n + 1, Len(list))

\* the list left in the order of discovery
sortByDateSkipped(list, side) == list

\* Array.prototype.sort with the comparator new Date(a) - new Date(b): ascending
\* by date, entries of equal date staying in their order (the sort is stable)
RECURSIVE sortByDate(_, _)
sortByDate(list, side) ==
    IF list = <<>> THEN <<>>
    ELSE insertByDate(sortByDate(SubSeq(list, 1, Len(list) - 1), side), list[Len(list)], side)

\* every variance counts
atLeastThresholdAlways(variance, lower, threshold) == TRUE

\* Math.abs(variance) >= threshold on doubles, lower being the smaller of the
\* two rates: at a threshold of one cent a difference of one cent is decided
\* by the rounding of the subtraction
atLeastThreshold(variance, lower, threshold) ==
    IF threshold = 1 /\ Abs(variance) = 1
    THEN lower \in OneCentExceeds
    ELSE Abs(variance) >= threshold

\* the group a first row of a PO line creates
newGroup(row) ==
    [poInfo |-> [po_id |-> row.po_id, item_id |-> row.item_id],
     itemReceipts |-> <<>>, vendorBills |-> <<>>]

\* every row's receipt line and bill line pushed, seen before or not
addRowAll(groups, row) ==
    LET poLineKey == row.po_line_id
        g == IF poLineKey \in DOMAIN groups THEN groups[poLineKey] ELSE newGroup(row)
    IN  [k \in DOMAIN groups \cup {poLineKey} |->
            IF k = poLineKey
            THEN [poInfo |-> g.poInfo,
                  itemReceipts |-> Append(g.itemReceipts,
                              [ir_id |-> row.ir_id, ir_date |-> row.ir_date,
                               ir_line_id |-> row.ir_line_id,
                               ir_rate |-> parseFloat(row.ir_rate)]),
                  vendorBills |-> Append(g.vendorBills,
                              [vb_id |-> row.vb_id, vb_date |-> row.vb_date,
                               vb_line_id |-> row.vb_line_id,
                               vb_rate |-> parseFloat(row.vb_rate)])]
            ELSE groups[k]]

\* the body of groupByPOLine's forEach: the row's receipt line and bill line
\* are pushed on the group of its PO line unless their line id is there already
addRow(groups, row) ==
    LET poLineKey == row.po_line_id
        g == IF poLineKey \in DOMAIN groups THEN groups[poLineKey] ELSE newGroup(row)
        irExists == \E i \in DOMAIN g.itemReceipts :
                        g.itemReceipts[i].ir_line_id = row.ir_line_id
        vbExists == \E i \in DOMAIN g.vendorBills :
                        g.vendorBills[i].vb_line_id = row.vb_line_id
        withIR == IF irExists THEN g.itemReceipts
                  ELSE Append(g.itemReceipts,
                              [ir_id |-> row.ir_id, ir_date |-> row.ir_date,
                               ir_line_id |-> row.ir_line_id,
                               ir_rate |-> parseFloat(row.ir_rate)])
        withVB == IF vbExists THEN g.vendorBills
                  ELSE Append(g.vendorBills,
                              [vb_id |-> row.vb_id, vb_date |-> row.vb_date,
                               vb_line_id |-> row.vb_line_id,
                               vb_rate |-> parseFloat(row.vb_rate)])
    IN  [k \in DOMAIN groups \cup {poLineKey} |->
            IF k = poLineKey
            THEN [poInfo |-> g.poInfo, itemReceipts |-> withIR, vendorBills |-> withVB]
            ELSE groups[k]]

RECURSIVE groupRows(_, _)
groupRows(rawResults, groups) ==
    IF rawResults = <<>> THEN groups
    ELSE groupRows(Tail(rawResults), addRow(groups, Head(rawResults)))

groupByPOLine(rawResults) == groupRows(rawResults, [k \in {} |-> newGroup(Head(rawResults))])

\* Object.keys of the groups: the keys are line ids, integer-like property
\* names, which JavaScript lists in ascending numeric order
POLineKeys == <<"201", "202">>
objectKeys(groups) ==
    LET present(k) == k \in DOMAIN groups IN SelectSeq(POLineKeys, present)

\* the for loop over one group: position i pairs the i-th oldest receipt line
\* with the i-th oldest bill line if both exist (ir && vb) and the variance
\* reaches the threshold
RECURSIVE pairsFrom(_, _, _, _, _, _)
pairsFrom(poLineKey, itemReceipts, vendorBills, i, maxPairs, threshold) ==
    IF i > maxPairs THEN <<>>
    ELSE
    LET rest == pairsFrom(poLineKey, itemReceipts, vendorBills, i + 1, maxPairs, threshold)
    IN  IF i <= Len(itemReceipts) /\ i <= Len(vendorBills)
        THEN LET ir == itemReceipts[i]
                 vbill == vendorBills[i]
                 variance == vbill.vb_rate - ir.ir_rate
             IN  IF atLeastThreshold(variance, Min(vbill.vb_rate, ir.ir_rate), threshold)
                 THEN <<[po_line_id |-> poLineKey,
                         ir_id |-> ir.ir_id, ir_date |-> ir.ir_date,
                         ir_line_id |-> ir.ir_line_id, ir_rate |-> ir.ir_rate,
                         vb_id |-> vbill.vb_id, vb_date |-> vbill.vb_date,
                         vb_line_id |-> vbill.vb_line_id, vb_rate |-> vbill.vb_rate]>> \o rest
                 ELSE rest
        ELSE rest

RECURSIVE pairsOfKeys(_, _, _)
pairsOfKeys(poLineGroups, keys, threshold) ==
    IF keys = <<>> THEN <<>>
    ELSE LET group == poLineGroups[Head(keys)]
             itemReceipts == sortByDate(group.itemReceipts, "ir")
             vendorBills == sortByDate(group.vendorBills, "vb")
             maxPairs == IF Len(itemReceipts) > Len(vendorBills)
                         THEN Len(itemReceipts) ELSE Len(vendorBills)
         IN  pairsFrom(Head(keys), itemReceipts, vendorBills, 1, maxPairs, threshold)
                 \o pairsOfKeys(poLineGroups, Tail(keys), threshold)

\* var threshold = minVariance || 0.01
createVariancePairs(poLineGroups, minVariance) ==
    pairsOfKeys(poLineGroups, objectKeys(poLineGroups),
                IF minVariance = 0 THEN 1 ELSE minVariance)

getVariancePairs(rawResults, minVariance) ==
    createVariancePairs(groupByPOLine(rawResults), minVariance)

----------------------------------------------------------------------------
(* Specification of grouping and pairing: the rows of the search over the   *)
(* receipt lines and bill lines of PO line "201", with or without a row of  *)
(* PO line "202" (of rates far apart or one cent apart), returned in every  *)
(* order.                                                                  *)

\* receipt lines of PO line "201": the first two share a date
ReceiptLines ==
    <<[ir_id |-> "1", ir_line_id |-> "k1", ir_date |-> "1/5/2024", ir_rate |-> "100.00"],
      [ir_id |-> "2", ir_line_id |-> "k4", ir_date |-> "1/5/2024", ir_rate |-> "105.00"],
      [ir_id |-> "3", ir_line_id |-> "k6", ir_date |-> "2/1/2024", ir_rate |-> "10.00"]>>
\* bill lines of PO line "201"
BillLines ==
    <<[vb_id |-> "50", vb_line_id |-> "b1", vb_date |-> "12/20/2023", vb_rate |-> "100.00"],
      [vb_id |-> "51", vb_line_id |-> "b2", vb_date |-> "1/9/2024", vb_rate |-> "105.00"],
      [vb_id |-> "52", vb_line_id |-> "b3", vb_date |-> "2/1/2024", vb_rate |-> "12.5"]>>

\* a row of the search: a PO line joined with one receipt line and one bill line
Row(poLineKey, ir, vbill) ==
    [po_id |-> "9", po_line_id |-> poLineKey, item_id |-> "7",
     ir_id |-> ir.ir_id, ir_line_id |-> ir.ir_line_id, ir_date |-> ir.ir_date,
     ir_rate |-> ir.ir_rate,
     vb_id |-> vbill.vb_id, vb_line_id |-> vbill.vb_line_id, vb_date |-> vbill.vb_date,
     vb_rate |-> vbill.vb_rate]

\* the one row of PO line "202"
OtherRow ==
    Row("202", [ir_id |-> "4", ir_line_id |-> "k7", ir_date |-> "1/9/2024", ir_rate |-> "10.00"],
               [vb_id |-> "53", vb_line_id |-> "b4", vb_date |-> "1/9/2024", vb_rate |-> "12.5"])
\* PO line "202" received at 105.01 and billed at 105.02, one cent more
OneCentRow ==
    Row("202", [ir_id |-> "4", ir_line_id |-> "k7", ir_date |-> "1/9/2024", ir_rate |-> "105.01"],
               [vb_id |-> "53", vb_line_id |-> "b4", vb_date |-> "1/9/2024", vb_rate |-> "105.02"])
\* PO line "202" received at 105.00 and billed at 105.01, one cent more
OneCentRowKept ==
    Row("202", [ir_id |-> "4", ir_line_id |-> "k7", ir_date |-> "1/9/2024", ir_rate |-> "105.00"],
               [vb_id |-> "53", vb_line_id |-> "b4", vb_date |-> "1/9/2024", vb_rate |-> "105.01"])

\* the join of PO line "201" with the receipt lines I and bill lines V: the
\* search's filter keeps the rows whose two rates differ
JoinRows(I, V) ==
    LET all == [n \in 1..(Len(ReceiptLines) * Len(BillLines)) |->
                  [i |-> ((n - 1) \div Len(BillLines)) + 1, v |-> ((n - 1) % Len(BillLines)) + 1]]
        kept(c) == /\ c.i \in I /\ c.v \in V
                   /\ parseFloat(ReceiptLines[c.i].ir_rate) # parseFloat(BillLines[c.v].vb_rate)
        cells == SelectSeq(all, kept)
    IN  [n \in DOMAIN cells |-> Row("201", ReceiptLines[cells[n].i], BillLines[cells[n].v])]

\* what the search can return: up to MaxRows rows
SearchResults ==
    {r \in {JoinRows(I, V) \o extra :
                I \in SUBSET DOMAIN ReceiptLines, V \in SUBSET DOMAIN BillLines,
                extra \in {<<>>, <<OtherRow>>, <<OneCentRow>>, <<OneCentRowKept>>}} :
        Len(r) >= 1 /\ Len(r) <= MaxRows}

InitPair ==
    /\ rows \in SearchResults
    /\ pairs = NoPairs
    /\ variant = "IR"
    /\ store = [d \in DocIds |-> [lines |-> <<>>, fault |-> "none"]]
    /\ call = NoCall
    /\ BatchIdle /\ AdjIdle /\ RunIdle /\ PageIdle

\* the same rows with two neighbours exchanged
Exchanged(list) ==
    {[n \in DOMAIN list |-> IF n = i THEN list[i + 1] ELSE IF n = i + 1 THEN list[i] ELSE list[n]] :
        i \in 1..(Len(list) - 1)}

\* getVariancePairs: the search returns the same rows as before, in the same
\* order or with two neighbours exchanged, and they are grouped and paired
GetPairs ==
    /\ \E rawResults \in {rows} \cup Exchanged(rows) :
          /\ rows' = rawResults
          /\ pairs' = [fetched |-> TRUE, groups |-> groupByPOLine(rawResults),
                       list |-> getVariancePairs(rawResults, MIN_VARIANCE)]
    /\ UNCHANGED <<variant, store, call, req, lastReq, resp, hist, vb, je, adj, run, page>>

NextPair == GetPairs
SpecPair == InitPair /\ [][NextPair]_vars

\* the (IR line, VB line) pairs of a list of variance pairs
PairSet(list) == {<<list[n].ir_line_id, list[n].vb_line_id>> : n \in DOMAIN list}

\* the rows of a PO line, its receipt line ids and its bill line ids
RowsOf(g) == {n \in DOMAIN rows : rows[n].po_line_id = g}
ReceiptsOf(g) == {rows[n].ir_line_id : n \in RowsOf(g)}
BillsOf(g) == {rows[n].vb_line_id : n \in RowsOf(g)}
\* the first row of PO line g that carries line id x in field f
FirstRow(g, f, x) == CHOOSE n \in RowsOf(g) : rows[n][f] = x /\ \A j \in RowsOf(g) : rows[j][f] = x => n <= j
\* the place of a receipt line among the receipt lines of its PO line: behind
\* the older ones and behind those of the same date that a row showed first
ReceiptPlace(g, x) ==
    1 + Cardinality({y \in ReceiptsOf(g) \ {x} :
            LET nx == FirstRow(g, "ir_line_id", x)
                ny == FirstRow(g, "ir_line_id", y)
            IN  \/ newDate(rows[ny].ir_date) < newDate(rows[nx].ir_date)
                \/ newDate(rows[ny].ir_date) = newDate(rows[nx].ir_date) /\ ny < nx})
BillPlace(g, x) ==
    1 + Cardinality({y \in BillsOf(g) \ {x} :
            LET nx == FirstRow(g, "vb_line_id", x)
                ny == FirstRow(g, "vb_line_id", y)
            IN  \/ newDate(rows[ny].vb_date) < newDate(rows[nx].vb_date)
                \/ newDate(rows[ny].vb_date) = newDate(rows[nx].vb_date) /\ ny < nx})
\* the pairs emitted for PO line g, in order
PairsOf(g) == LET ofGroup(q) == q.po_line_id = g IN SelectSeq(pairs.list, ofGroup)
\* the rates of a receipt line and a bill line of PO line g differ by 0.01 or
\* more as doubles do: by two cents, or by one cent that the subtraction rounds up
RatesDiffer(g, x, y) ==
    LET a == parseFloat(rows[FirstRow(g, "ir_line_id", x)].ir_rate)
        b == parseFloat(rows[FirstRow(g, "vb_line_id", y)].vb_rate)
    IN  \/ Abs(b - a) >= 2
        \/ Abs(b - a) = 1 /\ Min(a, b) \in OneCentExceeds
UnequalGroups ==
    {g \in {rows[n].po_line_id : n \in DOMAIN rows} :
        Cardinality(ReceiptsOf(g)) # Cardinality(BillsOf(g))}

C20_PairsIndependentOfRowOrder ==
    [][(pairs.fetched /\ pairs'.fetched) => PairSet(pairs'.list) = PairSet(pairs.list)]_vars

\* no two receipt lines and no two bill lines of one PO line share a date
DistinctDates ==
    \A a \in DOMAIN rows, b \in DOMAIN rows :
        rows[a].po_line_id = rows[b].po_line_id =>
            /\ rows[a].ir_line_id # rows[b].ir_line_id =>
                  newDate(rows[a].ir_date) # newDate(rows[b].ir_date)
            /\ rows[a].vb_line_id # rows[b].vb_line_id =>
                  newDate(rows[a].vb_date) # newDate(rows[b].vb_date)

\* C20: when no two receipt lines and no two bill lines of a PO line share a
\* date, the rows returned in another order give the same set of (IR line, VB
\* line) pairs.
C20_IndependentUnlessDatesTie ==
    [][(pairs.fetched /\ pairs'.fetched /\ DistinctDates)
          => PairSet(pairs'.list) = PairSet(pairs.list)]_vars
\* C20 witness: rows of distinct dates have been paired into two pairs or more
\* from an order in which the first receipt line shown is not the oldest.
C20_Witness ==
    /\ pairs.fetched /\ DistinctDates
    /\ Len(pairs.list) >= 2
    /\ \E n \in DOMAIN rows :
          /\ rows[n].po_line_id = rows[1].po_line_id
          /\ newDate(rows[n].ir_date) < newDate(rows[1].ir_date)

\* the PO lines of the rows
PairedGroups == {rows[n].po_line_id : n \in DOMAIN rows}
\* the rates (cents, exact) of a receipt line and a bill line of PO line g
ReceiptRate(g, x) == parseFloat(rows[FirstRow(g, "ir_line_id", x)].ir_rate)
BillRate(g, y) == parseFloat(rows[FirstRow(g, "vb_line_id", y)].vb_rate)

\* C21: with the rates taken as exact decimals, the pairs emitted are the
\* positional matches whose rates differ by 0.01 or more: every emitted pair
\* differs by at least 0.01 and every positional match that differs by at
\* least 0.01 (exactly 0.01 included) is emitted.
C21_EmittedIffOneCentApart ==
    pairs.fetched =>
        \A g \in PairedGroups :
            PairSet(PairsOf(g)) =
                {c \in ReceiptsOf(g) \X BillsOf(g) :
                    /\ ReceiptPlace(g, c[1]) = BillPlace(g, c[2])
                    /\ Abs(BillRate(g, c[2]) - ReceiptRate(g, c[1])) >= 1}
\* the half of C21 the code keeps: every emitted pair differs by at least 0.01
C21_EmittedPairsDiffer ==
    pairs.fetched =>
        \A n \in DOMAIN pairs.list : Abs(pairs.list[n].vb_rate - pairs.list[n].ir_rate) >= 1

----------------------------------------------------------------------------
(* The PO/VB review page: thresholds, grouping, pairing and the table.      *)
(* Percentages are held in hundredths of a percent (200 = 2%), the doubles  *)
(* of the code cut to two decimals toward zero.                            *)

Buckets == {"service", "kitchens", "appliances"}

\* script.getParameter(...): null when the parameter is not configured, else a
\* number or the string the platform holds for it
NullParameter == [t |-> "null"]
NumberParameter(n) == [t |-> "number", v |-> n]
StringParameter(str) == [t |-> "string", s |-> str]

\* parseFloat(script.getParameter(...) || 2): null, the number 0 and "" are falsy
configuredPercent(value) ==
    CASE value.t = "null" -> 200
      [] value.t = "number" -> IF value.v = 0 THEN 200 ELSE value.v
      [] value.t = "string" -> IF value.s = "" THEN 200 ELSE parseFloat(value.s)

getVarianceThresholds(config) ==
    [service |-> configuredPercent(config.service),
     kitchens |-> configuredPercent(config.kitchens),
     appliances |-> configuredPercent(config.appliances)]

getThresholdForLocation(locationId, thresholds) ==
    IF locationId = "113" THEN thresholds.service
    ELSE IF locationId = "17" THEN thresholds.kitchens
    ELSE thresholds.appliances

\* buildPageHTML's thresholds: a request parameter that is not empty overrides
\* the configured value of its bucket
pageThresholds(params, config) ==
    LET thresholds == getVarianceThresholds(config)
    IN  [service |-> IF Truthy(params.service_threshold)
                     THEN parseFloat(params.service_threshold) ELSE thresholds.service,
         kitchens |-> IF Truthy(params.kitchen_threshold)
                      THEN parseFloat(params.kitchen_threshold) ELSE thresholds.kitchens,
         appliances |-> IF Truthy(params.appliances_threshold)
                        THEN parseFloat(params.appliances_threshold) ELSE thresholds.appliances]

\* (PO rate, VB rate) in cents whose percentage is a whole number of hundredths
\* that the doubles fall short of: (10.20 - 10) / 10 * 100 is 1.9999999999999927
PercentRoundsBelow == {<<1000, 1020>>}

\* what a division by zero gives in JavaScript when the dividend is not zero
Infinity == 2000000000

\* the percentage without the test of the PO rate
variancePercentUnguarded(variance, po_rate) ==
    IF po_rate # 0
    THEN LET exact == (Abs(variance) * 10000) \div Abs(po_rate)
             cut == IF <<po_rate, po_rate + variance>> \in PercentRoundsBelow
                    THEN exact - 1 ELSE exact
         IN  IF (variance < 0) = (po_rate < 0) THEN cut ELSE -cut
    ELSE IF variance < 0 THEN -Infinity ELSE Infinity

\* po_rate !== 0 ? (variance / po_rate * 100) : 0
variancePercent(variance, po_rate) ==
    IF po_rate # 0
    THEN LET exact == (Abs(variance) * 10000) \div Abs(po_rate)
             cut == IF <<po_rate, po_rate + variance>> \in PercentRoundsBelow
                    THEN exact - 1 ELSE exact
         IN  IF (variance < 0) = (po_rate < 0) THEN cut ELSE -cut
    ELSE 0

\* the group a first row of a PO line creates (PO/VB variant)
newGroupPO(row) ==
    [poInfo |-> [po_id |-> row.po_id, location_id |-> row.location_id,
                 po_line_key |-> row.po_line_key, po_rate |-> parseFloat(row.po_rate)],
     vendorBills |-> <<>>]

\* the body of the PO/VB groupByPOLine's forEach: the row's bill line is pushed
\* on the group of its PO line unless its line key is there already
addRowPO(groups, row) ==
    LET poLineKey == row.po_line_key
        g == IF poLineKey \in DOMAIN groups THEN groups[poLineKey] ELSE newGroupPO(row)
        vbExists == \E i \in DOMAIN g.vendorBills :
                        g.vendorBills[i].vb_line_key = row.vb_line_key
        withVB == IF vbExists THEN g.vendorBills
                  ELSE Append(g.vendorBills,
                              [vb_id |-> row.vb_id, vb_date |-> row.vb_date,
                               vb_line_key |-> row.vb_line_key,
                               vb_rate |-> parseFloat(row.vb_rate)])
    IN  [k \in DOMAIN groups \cup {poLineKey} |->
            IF k = poLineKey THEN [poInfo |-> g.poInfo, vendorBills |-> withVB]
            ELSE groups[k]]

RECURSIVE groupRowsPO(_, _)
groupRowsPO(rawResults, groups) ==
    IF rawResults = <<>> THEN groups
    ELSE groupRowsPO(Tail(rawResults), addRowPO(groups, Head(rawResults)))

groupByPOLinePO(rawResults) ==
    groupRowsPO(rawResults, [k \in {} |-> newGroupPO(Head(rawResults))])

\* Object.keys of the PO/VB groups, integer-like keys in ascending order
POLineKeysPO == <<"301", "302", "303", "304">>
objectKeysPO(groups) ==
    LET present(k) == k \in DOMAIN groups IN SelectSeq(POLineKeysPO, present)

\* the bill line discovered last
pairedVendorBillLast(vendorBills) == vendorBills[Len(vendorBills)]

\* group.vendorBills.sort(by date)[0]: the oldest bill line
pairedVendorBill(vendorBills) == sortByDate(vendorBills, "vb")[1]

\* what createVariancePairs works out for one group with a bill line: the
\* variance, its percentage, the threshold of the location and whether the
\* pair is pushed
considerGroup(group, thresholds) ==
    LET vbill == pairedVendorBill(group.vendorBills)
        variance == vbill.vb_rate - group.poInfo.po_rate
        percent == variancePercent(variance, group.poInfo.po_rate)
        threshold == getThresholdForLocation(group.poInfo.location_id, thresholds)
    IN  [po_line_key |-> group.poInfo.po_line_key,
         location_id |-> group.poInfo.location_id,
         po_rate |-> group.poInfo.po_rate,
         vb_line_key |-> vbill.vb_line_key, vb_date |-> vbill.vb_date,
         vb_rate |-> vbill.vb_rate,
         variance |-> variance, variancePercent |-> percent, threshold |-> threshold,
         emitted |-> /\ atLeastThreshold(variance, Min(vbill.vb_rate, group.poInfo.po_rate), 1)
                     /\ Abs(percent) >= threshold]

\* every group's result, in the order of Object.keys
RECURSIVE consideredGroups(_, _, _)
consideredGroups(poLineGroups, keys, thresholds) ==
    IF keys = <<>> THEN <<>>
    ELSE LET group == poLineGroups[Head(keys)]
             rest == consideredGroups(poLineGroups, Tail(keys), thresholds)
         IN  IF Len(group.vendorBills) > 0
             THEN <<considerGroup(group, thresholds)>> \o rest
             ELSE rest

\* createVariancePairs of the PO/VB variant: the pairs pushed
createVariancePairsPO(poLineGroups, thresholds) ==
    LET pushed(c) == c.emitted
    IN  SelectSeq(consideredGroups(poLineGroups, objectKeysPO(poLineGroups), thresholds), pushed)

\* the list with pair x placed behind every pair not older than x
insertByDateDesc(list, x) ==
    LET notOlder == {i \in DOMAIN list : newDate(list[i].vb_date) >= newDate(x.vb_date)}
        n == IF notOlder = {} THEN 0 ELSE CHOOSE i \in notOlder : \A j \in notOlder : j <= i
    IN  SubSeq(list, 1, n) \o <<x>> \o SubSeq(list, n + 1, Len(list))

\* variancePairs.sort(newest bill first), stable
RECURSIVE sortNewestFirst(_)
sortNewestFirst(list) ==
    IF list = <<>> THEN <<>>
    ELSE insertByDateDesc(sortNewestFirst(SubSeq(list, 1, Len(list) - 1)), list[Len(list)])

getVariancePairsWithThresholds(rawResults, thresholds) ==
    sortNewestFirst(createVariancePairsPO(groupByPOLinePO(rawResults), thresholds))

\* the rows of the table: variance and percentage worked out again per pair
buildVarianceTablePO(variancePairs) ==
    [n \in DOMAIN variancePairs |->
        LET pair == variancePairs[n]
            variance == pair.vb_rate - pair.po_rate
        IN  [po_line_key |-> pair.po_line_key, po_rate |-> pair.po_rate,
             variance |-> variance,
             variancePercent |-> variancePercent(variance, pair.po_rate)]]

----------------------------------------------------------------------------
(* Specification of the PO/VB review page: four PO lines, one per location  *)
(* bucket and one without location, searched in some order and shown under  *)
(* the configured thresholds and the request's overrides.                   *)

\* a row of the PO/VB search: a PO line joined with one bill line
RowPO(key, location, poRate, vbId, vbKey, vbDate, vbRate) ==
    [po_id |-> "9", po_line_key |-> key, location_id |-> location, po_rate |-> poRate,
     vb_id |-> vbId, vb_line_key |-> vbKey, vb_date |-> vbDate, vb_rate |-> vbRate]

\* PO line 301 (service) at 100.00 billed at 101.00 and later at 103.00; 302
\* (kitchens) at 0.00 billed at 12.5; 303 (another location) at 10.00 billed
\* at 10.20; 304 (no location) at 105.01 billed at 105.02
SearchRowsPO ==
    <<RowPO("301", "113", "100.00", "50", "v1", "1/5/2024", "101.00"),
      RowPO("301", "113", "100.00", "51", "v2", "1/9/2024", "103.00"),
      RowPO("302", "17", "0.00", "52", "v3", "1/9/2024", "12.5"),
      RowPO("303", "5", "10.00", "53", "v4", "2/1/2024", "10.20"),
      RowPO("304", "", "105.01", "54", "v5", "12/20/2023", "105.02")>>

Reversed(list) == [n \in DOMAIN list |-> list[Len(list) + 1 - n]]

\* what the search can return: some of the rows, up to MaxRows, in their order
\* or the other way round
SearchResultsPO ==
    LET chosen(S) == LET in(n) == n \in S
                     IN  SelectSeq([n \in DOMAIN SearchRowsPO |-> n], in)
        taken(S) == [n \in DOMAIN chosen(S) |-> SearchRowsPO[chosen(S)[n]]]
    IN  UNION {{taken(S), Reversed(taken(S))} :
                  S \in {T \in SUBSET DOMAIN SearchRowsPO : T # {} /\ Cardinality(T) <= MaxRows}}

\* the script parameters of the deployment: at most one bucket configured
ParameterValues == {NumberParameter(0), NumberParameter(500), StringParameter("0")}
Configs ==
    {[b \in Buckets |-> IF b = c THEN v ELSE NullParameter] :
        c \in Buckets \cup {"none"}, v \in ParameterValues}

\* the threshold fields of the request, as the filter form sends them (numbers
\* not below 0) or absent: at most one bucket overridden
OverrideStrings == {"0", "3"}
PageParams ==
    {[service_threshold |-> IF c = "service" THEN v ELSE "",
      kitchen_threshold |-> IF c = "kitchens" THEN v ELSE "",
      appliances_threshold |-> IF c = "appliances" THEN v ELSE ""] :
        c \in Buckets \cup {"none"}, v \in OverrideStrings}

InitPage ==
    /\ variant = "PO"
    /\ rows \in SearchResultsPO
    /\ pairs = NoPairs
    /\ \E config \in Configs, params \in PageParams :
          page = [shown |-> FALSE, config |-> config, params |-> params]
    /\ store = [d \in DocIds |-> [lines |-> <<>>, fault |-> "none"]]
    /\ call = NoCall
    /\ BatchIdle /\ AdjIdle /\ RunIdle

\* a GET of the PO/VB suitelet: buildPageHTML works out the thresholds, gets
\* the pairs of the rows found and builds the table
ShowPage ==
    /\ variant = "PO"
    /\ LET thresholds == pageThresholds(page.params, page.config)
           poLineGroups == groupByPOLinePO(rows)
           variancePairs == getVariancePairsWithThresholds(rows, thresholds)
       IN  /\ pairs' = [fetched |-> TRUE, list |-> variancePairs]
           /\ page' = [shown |-> TRUE, config |-> page.config, params |-> page.params,
                       thresholds |-> thresholds,
                       groups |-> poLineGroups,
                       considered |-> consideredGroups(poLineGroups,
                                          objectKeysPO(poLineGroups), thresholds),
                       table |-> buildVarianceTablePO(variancePairs)]
    /\ UNCHANGED <<variant, store, call, req, lastReq, resp, hist, vb, je, adj, run, rows>>

NextPage == ShowPage
SpecPage == InitPage /\ [][NextPage]_vars

\* the bucket of a location and the request's override for a bucket
BucketOf(location) ==
    IF location = "113" THEN "service" ELSE IF location = "17" THEN "kitchens" ELSE "appliances"
OverrideOf(bucket) ==
    IF bucket = "service" THEN page.params.service_threshold
    ELSE IF bucket = "kitchens" THEN page.params.kitchen_threshold
    ELSE page.params.appliances_threshold
\* the PO lines for which a pair is listed
EmittedLines == {pairs.list[n].po_line_key : n \in DOMAIN pairs.list}
\* the percentage (vb_rate - po_rate) / po_rate * 100, 0 at a PO rate of 0,
\* reaches threshold t (hundredths of a percent) in exact arithmetic
PercentReaches(po, vbRate, t) ==
    IF po = 0 THEN 0 >= t ELSE Abs(vbRate - po) * 10000 >= t * Abs(po)

\* C22: a pair is emitted for a PO line if and only if abs(vb_rate - po_rate)
\* >= 0.01 and abs(percent variance) >= the threshold of the PO line's
\* location bucket, percent variance being (vb_rate - po_rate)/po_rate*100.
C22_EmittedIffBothThresholdsMet ==
    page.shown =>
        \A n \in DOMAIN page.considered :
            LET c == page.considered[n]
            IN  (c.po_line_key \in EmittedLines) <=>
                    /\ Abs(c.vb_rate - c.po_rate) >= 1
                    /\ PercentReaches(c.po_rate, c.vb_rate,
                                      page.thresholds[BucketOf(c.location_id)])
\* what the code keeps of C22: the equivalence for the PO lines whose variance
\* is not one cent and whose percentage is not the threshold itself
C22_EmittedIffAwayFromTheBoundaries ==
    page.shown =>
        \A n \in DOMAIN page.considered :
            LET c == page.considered[n]
                t == page.thresholds[BucketOf(c.location_id)]
            IN  (Abs(c.vb_rate - c.po_rate) # 1
                 /\ Abs(c.vb_rate - c.po_rate) * 10000 # t * Abs(c.po_rate))
                => ((c.po_line_key \in EmittedLines) <=>
                        /\ Abs(c.vb_rate - c.po_rate) >= 1
                        /\ PercentReaches(c.po_rate, c.vb_rate, t))

\* C23: the percent variance of a PO line whose po_rate is 0 is 0, in the
\* pairing and in the table, and such a line is emitted only when the
\* threshold of its bucket is 0.
C23_ZeroRateGivesZeroPercent ==
    page.shown =>
        /\ \A n \in DOMAIN page.considered :
              LET c == page.considered[n]
              IN  c.po_rate = 0 =>
                     /\ c.variancePercent = 0
                     /\ (c.po_line_key \in EmittedLines)
                            => page.thresholds[BucketOf(c.location_id)] = 0
        /\ \A n \in DOMAIN page.table :
              page.table[n].po_rate = 0 => page.table[n].variancePercent = 0
\* C23 witness: the page lists a PO line of rate 0 in its table, the threshold
\* of its bucket being 0.
C23_Witness ==
    /\ page.shown
    /\ \E n \in DOMAIN page.table :
          /\ page.table[n].po_rate = 0
          /\ page.table[n].variance # 0
          /\ page.table[n].po_line_key \in EmittedLines

\* the rows of PO line g and its bill line of the earliest date, the first
\* found among those of that date
RowsOfLine(g) == {n \in DOMAIN rows : rows[n].po_line_key = g}
EarliestBill(g) ==
    LET n == CHOOSE i \in RowsOfLine(g) :
                 \A j \in RowsOfLine(g) :
                     \/ newDate(rows[i].vb_date) < newDate(rows[j].vb_date)
                     \/ newDate(rows[i].vb_date) = newDate(rows[j].vb_date) /\ i <= j
    IN  rows[n]
\* the pairs listed for PO line g
PairsOfLine(g) == LET ofLine(q) == q.po_line_key = g IN SelectSeq(pairs.list, ofLine)
\* a bill line of PO line g passes both thresholds
Passes(row) ==
    /\ Abs(parseFloat(row.vb_rate) - parseFloat(row.po_rate)) >= 2
    /\ Abs(parseFloat(row.vb_rate) - parseFloat(row.po_rate)) * 10000
           > page.thresholds[BucketOf(row.location_id)] * Abs(parseFloat(row.po_rate))
\* a bill line of PO line g whose percentage is below the threshold
Fails(row) ==
    /\ parseFloat(row.po_rate) # 0
    /\ Abs(parseFloat(row.vb_rate) - parseFloat(row.po_rate)) * 10000
           < page.thresholds[BucketOf(row.location_id)] * Abs(parseFloat(row.po_rate))

\* C24: each PO-line group yields at most one pair, formed with the Vendor
\* Bill line of the earliest date of the group; when that line fails the
\* thresholds the group yields no pair, whatever its later lines are.
C24_OnlyTheOldestBillIsPaired ==
    page.shown =>
        \A g \in {rows[n].po_line_key : n \in DOMAIN rows} :
            /\ Len(PairsOfLine(g)) <= 1
            /\ \A n \in DOMAIN PairsOfLine(g) :
                  PairsOfLine(g)[n].vb_line_key = EarliestBill(g).vb_line_key
            /\ Fails(EarliestBill(g)) => PairsOfLine(g) = <<>>
\* C24 witness: a PO line whose oldest bill line fails the thresholds and
\* whose later bill line would pass them was found, later line first, and the
\* page lists no pair for it.
C24_Witness ==
    /\ page.shown
    /\ \E g \in {rows[n].po_line_key : n \in DOMAIN rows} :
          /\ PairsOfLine(g) = <<>>
          /\ Fails(EarliestBill(g))
          /\ \E n \in RowsOfLine(g) :
                /\ rows[n].vb_line_key # EarliestBill(g).vb_line_key
                /\ Passes(rows[n])
                /\ \A j \in RowsOfLine(g) : n <= j

\* the value of a configured script parameter, in hundredths of a percent
ConfiguredValue(value) == IF value.t = "number" THEN value.v ELSE parseFloat(value.s)
\* the threshold C25 gives a bucket: override, else configured value, else 2
ClaimedThreshold(bucket) ==
    IF OverrideOf(bucket) # "" THEN parseFloat(OverrideOf(bucket))
    ELSE IF page.config[bucket].t # "null" THEN ConfiguredValue(page.config[bucket])
    ELSE 200

\* C25: the threshold applied to a PO line is the one of its location bucket
\* ('113' service, '17' kitchens, any other appliances), which is the request
\* override when one is supplied, else the configured script parameter when
\* one is configured (a configured 0 included), else 2.
C25_ThresholdOfBucket ==
    page.shown =>
        \A n \in DOMAIN page.considered :
            page.considered[n].threshold =
                ClaimedThreshold(BucketOf(page.considered[n].location_id))
\* what the code keeps of C25: the same, unless the parameter of the bucket is
\* configured as the number 0 and not overridden
C25_ThresholdOfBucketUnlessZero ==
    page.shown =>
        \A n \in DOMAIN page.considered :
            LET b == BucketOf(page.considered[n].location_id)
            IN  ~(OverrideOf(b) = "" /\ page.config[b] = NumberParameter(0))
                => page.considered[n].threshold = ClaimedThreshold(b)

\* the line keys of a list of entries
KeysOf(list, f) == {list[i][f] : i \in DOMAIN list}
NoKeyTwice(list, f) == \A i \in DOMAIN list, j \in DOMAIN list : list[i][f] = list[j][f] => i = j

\* C26: groupByPOLine yields one group per distinct PO-line key of the rows;
\* within a group no two receipt entries and no two bill entries share a line
\* key, every line key seen in a row of the PO line is present, and grouping
\* the rows followed by themselves yields the same groups.
C26_GroupsAreDeduplicated ==
    pairs.fetched =>
        /\ DOMAIN pairs.groups = PairedGroups
        /\ \A g \in DOMAIN pairs.groups :
              /\ NoKeyTwice(pairs.groups[g].itemReceipts, "ir_line_id")
              /\ NoKeyTwice(pairs.groups[g].vendorBills, "vb_line_id")
              /\ KeysOf(pairs.groups[g].itemReceipts, "ir_line_id") = ReceiptsOf(g)
              /\ KeysOf(pairs.groups[g].vendorBills, "vb_line_id") = BillsOf(g)
        /\ groupByPOLine(rows \o rows) = pairs.groups
\* C26 witness: rows of two PO lines were grouped, a receipt line and a bill
\* line each joined in more than one row.
C26_Witness ==
    /\ pairs.fetched
    /\ Cardinality(DOMAIN pairs.groups) = 2
    /\ \E a \in DOMAIN rows, b \in DOMAIN rows, c \in DOMAIN rows :
          /\ a # b /\ rows[a].ir_line_id = rows[b].ir_line_id
          /\ a # c /\ rows[a].vb_line_id = rows[c].vb_line_id
\* C26 for the PO/VB copy of groupByPOLine
C26_GroupsAreDeduplicatedPO ==
    page.shown =>
        /\ DOMAIN page.groups = {rows[n].po_line_key : n \in DOMAIN rows}
        /\ \A g \in DOMAIN page.groups :
              /\ NoKeyTwice(page.groups[g].vendorBills, "vb_line_key")
              /\ KeysOf(page.groups[g].vendorBills, "vb_line_key")
                     = {rows[n].vb_line_key : n \in RowsOfLine(g)}
        /\ groupByPOLinePO(rows \o rows) = page.groups

----------------------------------------------------------------------------
(* The batch round as it travels between server and browser. Request       *)
(* parameters are text: a text is a sequence of pieces, each a run of       *)
(* characters held as one string. The characters JSON and HTML treat        *)
(* specially stand alone as a piece, or sit in the one item name that       *)
(* carries a double quote.                                                  *)

Quote == "\""
\* an item name with a double quote in it: 30" Range
QuotedName == "30\" Range"
\* the same name as JSON.stringify writes it inside a string: 30\" Range
QuotedNameInJSON == "30\\\" Range"

\* JSON.stringify's escaping of the characters of a string value
jsonEscape(piece) == IF piece = QuotedName THEN QuotedNameInJSON ELSE piece
\* JSON.parse's reading of the characters of a string value
jsonUnescape(piece) == IF piece = QuotedNameInJSON THEN QuotedName ELSE piece

\* the keys of an error record or an updated record, in the order written
jsonKeys(rec) ==
    IF "irId" \in DOMAIN rec THEN <<"irId", "irNumber", "itemName", "error">>
    ELSE IF "poId" \in DOMAIN rec THEN <<"poId", "poNumber", "itemName", "error">>
    ELSE IF "irNumber" \in DOMAIN rec THEN <<"irNumber", "itemName", "newRate">>
    ELSE <<"poNumber", "itemName">>

RECURSIVE jsonMembers(_, _)
jsonMembers(rec, keys) ==
    IF keys = <<>> THEN <<>>
    ELSE <<Quote, Head(keys), Quote, ":", Quote, jsonEscape(rec[Head(keys)]), Quote>>
             \o (IF Tail(keys) = <<>> THEN <<>> ELSE <<",">>)
             \o jsonMembers(rec, Tail(keys))

RECURSIVE jsonElements(_)
jsonElements(list) ==
    IF list = <<>> THEN <<>>
    ELSE <<"{">> \o jsonMembers(Head(list), jsonKeys(Head(list))) \o <<"}">>
             \o (IF Tail(list) = <<>> THEN <<>> ELSE <<",">>)
             \o jsonElements(Tail(list))

\* JSON.stringify of a list of records whose values are strings
JSONstringify(list) == <<"[">> \o jsonElements(list) \o <<"]">>

\* JSON.parse throws a SyntaxError
SyntaxError == [ok |-> FALSE]

\* the members "key":"value" of an object from piece i on, up to its }
RECURSIVE parseMembers(_, _, _)
parseMembers(text, i, acc) ==
    IF i + 7 > Len(text) THEN SyntaxError
    ELSE IF ~(/\ text[i] = Quote /\ text[i + 2] = Quote /\ text[i + 3] = ":"
              /\ text[i + 4] = Quote /\ text[i + 6] = Quote)
    THEN SyntaxError
    ELSE LET got == Append(acc, <<text[i + 1], jsonUnescape(text[i + 5])>>)
         IN  IF text[i + 7] = "}" THEN [ok |-> TRUE, next |-> i + 8, pairs |-> got]
             ELSE IF text[i + 7] = "," THEN parseMembers(text, i + 8, got)
             ELSE SyntaxError

\* the object of the members read, a later member of a key replacing an earlier
objectOf(members) ==
    [k \in {members[n][1] : n \in DOMAIN members} |->
        members[CHOOSE n \in DOMAIN members :
                   /\ members[n][1] = k
                   /\ \A m \in DOMAIN members : members[m][1] = k => m <= n][2]]

\* the objects of an array from piece i on, up to its ] at the end of the text
RECURSIVE parseElements(_, _, _)
parseElements(text, i, acc) ==
    IF i + 1 > Len(text) \/ text[i] # "{" THEN SyntaxError
    ELSE LET m == IF text[i + 1] = "}"
                  THEN [ok |-> TRUE, next |-> i + 2, pairs |-> <<>>]
                  ELSE parseMembers(text, i + 1, <<>>)
         IN  IF ~m.ok THEN SyntaxError
             ELSE IF m.next > Len(text) THEN SyntaxError
             ELSE IF text[m.next] = "]"
             THEN (IF m.next = Len(text)
                   THEN [ok |-> TRUE, value |-> Append(acc, objectOf(m.pairs))]
                   ELSE SyntaxError)
             ELSE IF text[m.next] = ","
             THEN parseElements(text, m.next + 1, Append(acc, objectOf(m.pairs)))
             ELSE SyntaxError

\* a text that does not parse is taken for the empty list
JSONparseOrEmpty(text) ==
    LET parsed == IF Len(text) < 2 \/ text[1] # "[" THEN SyntaxError
                  ELSE IF text[2] = "]"
                  THEN (IF Len(text) = 2 THEN [ok |-> TRUE, value |-> <<>>] ELSE SyntaxError)
                  ELSE parseElements(text, 2, <<>>)
    IN  IF parsed.ok THEN parsed ELSE [ok |-> TRUE, value |-> <<>>]

\* JSON.parse of the text of an array of records: the list, or a SyntaxError
JSONparse(text) ==
    IF Len(text) < 2 \/ text[1] # "[" THEN SyntaxError
    ELSE IF text[2] = "]"
    THEN (IF Len(text) = 2 THEN [ok |-> TRUE, value |-> <<>>] ELSE SyntaxError)
    ELSE parseElements(text, 2, <<>>)

\* the decimal strings of the counts and batch indexes
Decimals ==
    <<"0", "1", "2", "3", "4", "5", "6", "7", "8", "9", "10", "11", "12", "13", "14",
      "15", "16", "17", "18", "19", "20">>
\* what a number becomes as a request parameter
decimalString(n) == Decimals[n + 1]
\* parseInt of a parameter that holds a decimal string
parseInt(text) == (CHOOSE n \in DOMAIN Decimals : Decimals[n] = text[1]) - 1

\* x || fallback on a parameter: the empty text is falsy
orDefault(text, fallback) == IF text = <<>> THEN fallback ELSE text

\* String.prototype.split at a separator piece
RECURSIVE split(_, _)
split(text, separator) ==
    LET at == {n \in DOMAIN text : text[n] = separator}
    IN  IF at = {} THEN <<text>>
        ELSE LET n == CHOOSE i \in at : \A j \in at : i <= j
             IN  <<SubSeq(text, 1, n - 1)>> \o split(SubSeq(text, n + 1, Len(text)), separator)

\* the string of one field: the empty string when nothing stands between two bars
fieldOf(text) == IF text = <<>> THEN "" ELSE text[1]

\* selectedVariances.split(',') and, per update, update.split('|')
splitUpdates(selectedVariances) ==
    LET items == split(selectedVariances, ",")
    IN  [n \in DOMAIN items |->
            LET fields == split(items[n], "|")
            IN  [k \in DOMAIN fields |-> fieldOf(fields[k])]]

\* the parameters object handed to redirect.toSuitelet: the lists as JSON
\* text, the selection as received, errors null (no text) when nothing failed
redirectParameters(out, selectedVariances) ==
    IF out.kind = "continue"
    THEN [kind |-> "continue", processing |-> "true",
          selected_variances |-> selectedVariances,
          batch_index |-> out.batch_index,
          success_count |-> out.success_count,
          error_count |-> out.error_count,
          previous_errors |-> JSONstringify(out.previous_errors),
          previous_updated |-> JSONstringify(out.previous_updated)]
    ELSE IF out.kind = "complete"
    THEN [kind |-> "complete", updateSuccess |-> "true",
          successCount |-> out.successCount,
          errorCount |-> out.errorCount,
          errors |-> IF out.errorCount > 0 THEN JSONstringify(out.errors) ELSE <<>>,
          updatedRecords |-> JSONstringify(out.updatedRecords)]
    ELSE out

\* the parameters handlePost reads once their texts are parsed: the selection
\* split, the counts through parseInt, the lists through JSON.parse
parsedParameters(params, previousErrors, previousUpdated) ==
    IF params.selected_variances = <<>> THEN [selected_variances |-> <<>>]
    ELSE [selected_variances |-> splitUpdates(params.selected_variances),
          batch_index |-> parseInt(orDefault(params.batch_index, <<"0">>)),
          success_count |-> parseInt(orDefault(params.success_count, <<"0">>)),
          error_count |-> parseInt(orDefault(params.error_count, <<"0">>)),
          previous_errors |-> previousErrors.value,
          previous_updated |-> previousUpdated.value]

\* the outcome of a round with its response as redirect.toSuitelet sends it
redirected(r, selectedVariances) ==
    [store |-> r.store, tried |-> r.tried,
     resp |-> redirectParameters(r.resp, selectedVariances)]

\* handlePost on the parameters of a POST: the counts and lists are parsed
\* before the window is processed, and a SyntaxError leaves the handler
handlePostText(v, st, params) ==
    LET selectedVariances == params.selected_variances
        previousErrors == IF params.previous_errors # <<>>
                          THEN JSONparse(params.previous_errors)
                          ELSE [ok |-> TRUE, value |-> <<>>]
        previousUpdated == IF params.previous_updated # <<>>
                           THEN JSONparse(params.previous_updated)
                           ELSE [ok |-> TRUE, value |-> <<>>]
    IN  IF selectedVariances # <<>> /\ (~previousErrors.ok \/ ~previousUpdated.ok)
        THEN [store |-> st, tried |-> <<>>, resp |-> [kind |-> "threw"]]
        ELSE redirected(handlePost(v, st,
                            parsedParameters(params, previousErrors, previousUpdated)),
                        selectedVariances)

\* request.parameters of the GET the continuation redirect leads to: the
\* numbers arrive as decimal strings
requestParameters(redirect) ==
    [processing |-> <<redirect.processing>>,
     selected_variances |-> redirect.selected_variances,
     batch_index |-> <<decimalString(redirect.batch_index)>>,
     success_count |-> <<decimalString(redirect.success_count)>>,
     error_count |-> <<decimalString(redirect.error_count)>>,
     previous_errors |-> redirect.previous_errors,
     previous_updated |-> redirect.previous_updated]

\* escapeHtml of one piece: & < > " ' are replaced by their entities
escapeHtmlPiece(piece) ==
    CASE piece = Quote -> "&quot;"
      [] piece = QuotedName -> "30&quot; Range"
      [] piece = QuotedNameInJSON -> "30\\&quot; Range"
      [] OTHER -> piece

\* the text is written as it is
escapeHtmlNone(text) == text

\* escapeHtml: '' for no text, else every special character replaced
escapeHtml(text) == [n \in DOMAIN text |-> escapeHtmlPiece(text[n])]

\* the hidden inputs of continueForm: value="<escaped parameter or default>"
continueForm(params) ==
    [selected_variances |-> escapeHtml(orDefault(params.selected_variances, <<>>)),
     batch_index |-> escapeHtml(orDefault(params.batch_index, <<"0">>)),
     success_count |-> escapeHtml(orDefault(params.success_count, <<"0">>)),
     error_count |-> escapeHtml(orDefault(params.error_count, <<"0">>)),
     previous_errors |-> escapeHtml(orDefault(params.previous_errors, <<"[", "]">>)),
     previous_updated |-> escapeHtml(orDefault(params.previous_updated, <<"[", "]">>))]

\* the browser's reading of a value="..." attribute: it ends at the first
\* double quote written as such, and the entities before it are decoded
hasQuote(piece) == piece \in {Quote, QuotedName, QuotedNameInJSON}
beforeQuote(piece) ==
    CASE piece = Quote -> ""
      [] piece = QuotedName -> "30"
      [] piece = QuotedNameInJSON -> "30\\"
decodeEntities(piece) ==
    CASE piece = "&quot;" -> Quote
      [] piece = "30&quot; Range" -> QuotedName
      [] piece = "30\\&quot; Range" -> QuotedNameInJSON
      [] OTHER -> piece
attributeValue(html) ==
    LET cut == {n \in DOMAIN html : hasQuote(html[n])}
    IN  IF cut = {} THEN [n \in DOMAIN html |-> decodeEntities(html[n])]
        ELSE LET first == CHOOSE i \in cut : \A j \in cut : i <= j
                 whole == [n \in 1..(first - 1) |-> decodeEntities(html[n])]
             IN  IF beforeQuote(html[first]) = "" THEN whole
                 ELSE Append(whole, beforeQuote(html[first]))

\* document.getElementById("continueForm").submit(): the POST parameters
formSubmit(form) ==
    [selected_variances |-> attributeValue(form.selected_variances),
     batch_index |-> attributeValue(form.batch_index),
     success_count |-> attributeValue(form.success_count),
     error_count |-> attributeValue(form.error_count),
     previous_errors |-> attributeValue(form.previous_errors),
     previous_updated |-> attributeValue(form.previous_updated)]

----------------------------------------------------------------------------
(* Specification of the rounds as they travel: a first submission, or a     *)
(* continuation request whose lists do not parse, is posted; every          *)
(* continuation is relayed through the processing page.                     *)

\* the updates selected: item names with and without a double quote
RelayUpdates(v) ==
    IF v = "IR"
    THEN {<<d, "k1", "12.5", irNumber(d), nm, "7">> : d \in DocIds, nm \in {"Range", QuotedName}}
    ELSE {<<d, "k1", IF d = "1" THEN "PO201" ELSE "PO202", nm>> :
             d \in DocIds, nm \in {"Range", QuotedName}}

\* selections of some more than one window and of MaxSel updates
RelaySelections(v) ==
    {Pattern(base, n) : base \in UNION {[1..k -> RelayUpdates(v)] : k \in 1..2},
                        n \in {6, MaxSel}}

\* the selection as the page's script posts it: the fields of an update joined
\* by |, the updates by a comma
RECURSIVE joinPieces(_, _)
joinPieces(list, separator) ==
    IF list = <<>> THEN <<>>
    ELSE Head(list) \o (IF Tail(list) = <<>> THEN <<>> ELSE <<separator>>)
             \o joinPieces(Tail(list), separator)
selectionText(sel) ==
    joinPieces([n \in DOMAIN sel |->
                   joinPieces([k \in DOMAIN sel[n] |-> <<sel[n][k]>>], "|")], ",")

\* the first POST: the selection only
FirstPost(sel) ==
    [selected_variances |-> selectionText(sel), batch_index |-> <<>>,
     success_count |-> <<>>, error_count |-> <<>>,
     previous_errors |-> <<>>, previous_updated |-> <<>>]

\* texts that are not JSON: an array cut short, and a word
MalformedTexts == {<<"[", "{", Quote, "irId">>, <<"oops">>}
\* continuation requests of the second round of which a list is malformed
MalformedPosts(v) ==
    {[selected_variances |-> selectionText(Pattern(<<u>>, 6)), batch_index |-> <<b>>,
      success_count |-> <<"0">>, error_count |-> <<"0">>,
      previous_errors |-> e, previous_updated |-> u2] :
        u \in RelayUpdates(v), b \in {"0", "1"},
        e \in MalformedTexts \cup {<<"[", "]">>},
        u2 \in MalformedTexts \cup {<<"[", "]">>}}
    \ {[selected_variances |-> selectionText(Pattern(<<u>>, 6)), batch_index |-> <<b>>,
        success_count |-> <<"0">>, error_count |-> <<"0">>,
        previous_errors |-> <<"[", "]">>, previous_updated |-> <<"[", "]">>] :
          u \in RelayUpdates(v), b \in {"0", "1"}}

InitRelay ==
    /\ variant \in {"IR", "PO"}
    /\ \E f \in [DocIds -> Faults] :
          store = [d \in DocIds |->
                     [lines |-> IF d = "1" THEN LinesOfDoc1 ELSE LinesOfDoc2, fault |-> f[d]]]
    /\ \/ \E sel \in RelaySelections(variant) : req = FirstPost(sel)
       \/ req \in MalformedPosts(variant)
    /\ lastReq = NoReq /\ resp = NoResp /\ hist = NoHist
    /\ call = NoCall
    /\ AdjIdle /\ RunIdle /\ SearchIdle /\ PageIdle

\* what a POST leaves behind: the store and the redirect of handlePost
responded(r) ==
    /\ store' = r.store
    /\ resp' = r.resp

\* the record of the round a POST ran
recorded(r) ==
    hist' = [op |-> "submit", rounds |-> hist.rounds + 1,
             attempts |-> hist.attempts \o Positions(r.tried), round |-> r.tried]

\* the outcome of a POST kept: store, redirect and record
postTaken(r) == responded(r) /\ recorded(r)

\* a POST of the request in flight: handlePost
PostRound ==
    /\ hist.op \in {"none", "relay"}
    /\ postTaken(handlePostText(variant, store, req))
    /\ lastReq' = req
    /\ UNCHANGED <<variant, call, req, vb, je, adj, run, rows, pairs, page>>

\* the continuation redirect is followed: the GET shows the processing page,
\* whose form the browser submits
Relay ==
    /\ hist.op = "submit" /\ resp.kind = "continue"
    /\ req' = formSubmit(continueForm(requestParameters(resp)))
    /\ hist' = [hist EXCEPT !.op = "relay"]
    /\ UNCHANGED <<variant, store, call, lastReq, resp, vb, je, adj, run, rows, pairs, page>>

NextRelay == PostRound \/ Relay
SpecRelay == InitRelay /\ [][NextRelay]_vars

\* a list of the request does not parse
Malformed(params) ==
    \/ params.previous_errors \in MalformedTexts
    \/ params.previous_updated \in MalformedTexts

\* C27: a round whose previous_errors or previous_updated is present but not
\* valid JSON fails as a whole: no item of its window is passed to the Record
\* Mutator, no document is changed, and neither a continuation nor a terminal
\* summary is emitted.
C27_MalformedContinuationFailsWhole ==
    [][(hist'.rounds = hist.rounds + 1 /\ Malformed(req))
          => /\ hist'.round = <<>>
             /\ store' = store
             /\ resp'.kind \notin {"continue", "complete"}]_vars
\* C27 witness: a round with a malformed list has run over a window whose
\* documents take the update, and it threw.
C27_Witness ==
    /\ hist.rounds = 1 /\ hist.op = "submit"
    /\ Malformed(lastReq)
    /\ resp.kind = "threw"
    /\ \A d \in DocIds : store[d].fault = "none"

\* C28: what round b+1 receives through the processing page's form equals
\* what the continuation of round b emitted: the selection, the batch index
\* and the two counts (as decimal strings), and the two lists, which parse
\* to the records the round had collected.
C28_ContinuationSurvivesTheRelay ==
    hist.op = "relay" =>
        /\ req.selected_variances = resp.selected_variances
        /\ req.batch_index = <<Decimals[resp.batch_index + 1]>>
        /\ req.success_count = <<Decimals[resp.success_count + 1]>>
        /\ req.error_count = <<Decimals[resp.error_count + 1]>>
        /\ req.previous_errors = resp.previous_errors
        /\ req.previous_updated = resp.previous_updated
        /\ JSONparse(req.previous_errors).ok
        /\ JSONparse(req.previous_updated).ok
        /\ Len(JSONparse(req.previous_errors).value) = resp.error_count
        /\ Len(JSONparse(req.previous_updated).value) = resp.success_count
        /\ JSONstringify(JSONparse(req.previous_errors).value) = resp.previous_errors
        /\ JSONstringify(JSONparse(req.previous_updated).value) = resp.previous_updated
\* C28 witness: a continuation that carries both an error record and an
\* updated record with a double quote in the item name has been relayed.
C28_Witness ==
    /\ hist.op = "relay"
    /\ \E n \in DOMAIN req.previous_errors : req.previous_errors[n] = QuotedNameInJSON
    /\ \E n \in DOMAIN req.previous_updated : req.previous_updated[n] = QuotedNameInJSON

\* the place of the receipt line of the n-th pair emitted for PO line g
PlaceOfPair(g, n) == ReceiptPlace(g, PairsOf(g)[n].ir_line_id)

\* C29: in every PO-line group the pair of place i matches the i-th oldest
\* receipt line with the i-th oldest bill line, lines of identical date in
\* the order their first rows were found; the pairs of a group come in the
\* order of their places, one for each place whose two rates differ by 0.01.
C29_PositionalByDateThenDiscovery ==
    pairs.fetched =>
        \A g \in PairedGroups :
            /\ \A n \in DOMAIN PairsOf(g) :
                  /\ PlaceOfPair(g, n) = BillPlace(g, PairsOf(g)[n].vb_line_id)
                  /\ \A m \in DOMAIN PairsOf(g) : n < m => PlaceOfPair(g, n) < PlaceOfPair(g, m)
            /\ \A c \in ReceiptsOf(g) \X BillsOf(g) :
                  (ReceiptPlace(g, c[1]) = BillPlace(g, c[2]) /\ RatesDiffer(g, c[1], c[2]))
                      => c \in PairSet(PairsOf(g))
\* C29 witness: two receipt lines of one date were found, the one of the
\* higher line id first, and both were paired: the first found with the
\* older bill line.
C29_Witness ==
    /\ pairs.fetched
    /\ \E a \in DOMAIN rows, b \in DOMAIN rows, n \in DOMAIN pairs.list, m \in DOMAIN pairs.list :
          /\ rows[a].po_line_id = rows[b].po_line_id
          /\ rows[a].ir_line_id = "k4" /\ rows[b].ir_line_id = "k1"
          /\ rows[a].ir_date = rows[b].ir_date
          /\ \A j \in DOMAIN rows : rows[j].ir_line_id = "k1" => a < j
          /\ pairs.list[n].ir_line_id = "k4" /\ pairs.list[m].ir_line_id = "k1"
          /\ newDate(pairs.list[n].vb_date) < newDate(pairs.list[m].vb_date)

\* C30: the department of the COGS line (account 353) of a Journal Entry is
\* '13' when the department of the Vendor Bill's item line is '13', '10' when
\* it is '10' and '107' for every other value, none included, whether the
\* amount is above zero or not.
C30_CogsDepartment ==
    [][je' # je =>
        LET e == je'[Len(je')].lines
            line == vb.lines[FirstItemLine(vb.lines, adj'.request.item_id)]
        IN  /\ e[2].account = "353"
            /\ e[2].department =
                  (IF line.department = "13" THEN "13"
                   ELSE IF line.department = "10" THEN "10" ELSE "107")]_vars
\* C30 witness: an adjustment of an amount not above zero on a line without
\* department has stored its Journal Entry, the COGS line on department '107'.
C30_Witness ==
    /\ adj.out = "success" /\ adj.trace.amount <= 0
    /\ je # <<>>
    /\ vb.lines[1].department = ""
    /\ je[Len(je)].lines[2].department = "107"
\* the branch of the amount above zero, on department '13'
C30_WitnessPositive ==
    /\ adj.out = "success" /\ adj.trace.amount > 0
    /\ je # <<>>
    /\ vb.lines[1].department = "13"
    /\ je[Len(je)].lines[2].department = "13"

----------------------------------------------------------------------------
(* Properties of the scheduled run's counts *)

\* the positions passed to the Record Mutator whose receipt is stored, carries
\* the item and lies in a locked period: the save throws 'closed period'
ClosedPositions ==
    {k \in DOMAIN run.mutated :
        LET pair == run.variancePairs[run.mutated[k]]
        IN  /\ pair.ir_id \in DOMAIN store
            /\ store[pair.ir_id].fault = "closed"
            /\ \E i \in DOMAIN store[pair.ir_id].lines :
                  store[pair.ir_id].lines[i].item = pair.item_id}

\* C31: after every item of a scheduled run processed = successCount +
\* closedPeriodCount + errorCount, each list is as long as its count, and the
\* items whose save failed on a closed period are counted as closed-period
\* only: each has its record there and none is among the errors.
C31_CountsAddUp ==
    run.phase \in {"loop", "done"} =>
        LET r == run.results
        IN  /\ r.processed = r.successCount + r.closedPeriodCount + r.errorCount
            /\ r.processed = Len(run.mutated)
            /\ Len(r.updated) = r.successCount
            /\ Len(r.closedPeriod) = r.closedPeriodCount
            /\ Len(r.errors) = r.errorCount
            /\ r.closedPeriodCount = Cardinality(ClosedPositions)
            /\ \A i \in DOMAIN r.errors : r.errors[i].fullError # ClosedPeriodMsg
\* C31 witness: a finished run has counted an update, a closed period and an error.
C31_Witness ==
    /\ run.phase = "done"
    /\ run.results.successCount > 0
    /\ run.results.closedPeriodCount > 0
    /\ run.results.errorCount > 0
    /\ run.results.skipped = <<>>

----------------------------------------------------------------------------
(* The frame of the Record Mutator *)

\* the lines of document d that a step changed
ChangedLines(d) ==
    {i \in DOMAIN store[d].lines : store'[d].lines[i] # store[d].lines[i]}
\* the first line of document d whose key is key, 0 if there is none
FirstOfKey(d, key) ==
    LET hits == {i \in DOMAIN store[d].lines : store[d].lines[i].key = key}
    IN  IF hits = {} THEN 0 ELSE CHOOSE i \in hits : \A j \in hits : i <= j

\* C32: a call of the Record Mutator keeps the lines of every document in
\* number, item, key and fault; updateItemReceiptLineRate changes the rate
\* only, and only on lines of the targeted receipt whose item is itemId;
\* markPOLineReviewed changes no rate and sets the reviewed flag on the first
\* line of the targeted order whose key is poLineKey, and on no other line.
C32_OnlyTheTargetedField ==
    [][call'.op # "none" =>
        /\ DOMAIN store' = DOMAIN store
        /\ \A d \in DOMAIN store :
              /\ store'[d].fault = store[d].fault
              /\ DOMAIN store'[d].lines = DOMAIN store[d].lines
              /\ d # call'.id => store'[d] = store[d]
              /\ \A i \in DOMAIN store[d].lines :
                    /\ store'[d].lines[i].item = store[d].lines[i].item
                    /\ store'[d].lines[i].key = store[d].lines[i].key
                    /\ call'.op = "rate" =>
                          /\ store'[d].lines[i].reviewed = store[d].lines[i].reviewed
                          /\ store[d].lines[i].item # call'.item =>
                                store'[d].lines[i].rate = store[d].lines[i].rate
                    /\ call'.op = "review" =>
                          /\ store'[d].lines[i].rate = store[d].lines[i].rate
                          /\ i # FirstOfKey(d, call'.key) =>
                                store'[d].lines[i].reviewed = store[d].lines[i].reviewed
        /\ (call'.op = "review" /\ call'.ok) =>
              /\ FirstOfKey(call'.id, call'.key) # 0
              /\ store'[call'.id].lines[FirstOfKey(call'.id, call'.key)].reviewed
              /\ ChangedLines(call'.id) \subseteq {FirstOfKey(call'.id, call'.key)}]_vars
\* C32 witness: updateItemReceiptLineRate has succeeded on a receipt that
\* carries a line of the item, now at the new rate, and a line of another
\* item, still at its rate.
C32_Witness ==
    /\ call.op = "rate" /\ call.ok
    /\ \E i, j \in DOMAIN store[call.id].lines :
          /\ store[call.id].lines[i].item = call.item
          /\ store[call.id].lines[i].rate = parseFloat(call.rate)
          /\ store[call.id].lines[j].item \notin {call.item, ""}
          /\ store[call.id].lines[j].rate = 900
\* markPOLineReviewed has succeeded on an order of several lines: one line is
\* marked, the others are not.
C32_WitnessReviewed ==
    /\ call.op = "review" /\ call.ok
    /\ Len(store[call.id].lines) > 1
    /\ Cardinality({i \in DOMAIN store[call.id].lines : store[call.id].lines[i].reviewed}) = 1

----------------------------------------------------------------------------
(* Specification of a reconciliation: the pairs are searched on the stored  *)
(* Item Receipts, each is passed to the Record Mutator as the scheduled     *)
(* script does, and the pairs are searched again.                           *)

\* the text the search returns for a rate held in cents
rateValue(cents) ==
    CASE cents = 900 -> "9.00"
      [] cents = 1000 -> "10.00"
      [] cents = 1250 -> "12.50"

\* the rates of the Vendor Bill lines
BillRates == {"10.00", "12.50"}

\* a PO line with the receipt line that fulfils it and the bill line that bills it
Link(poLineKey, item, irId, irLineId, vbLineId, vbRate) ==
    [po_line_id |-> poLineKey, item_id |-> item, ir_id |-> irId, ir_line_id |-> irLineId,
     ir_date |-> "1/5/2024", vb_id |-> "50", vb_line_id |-> vbLineId,
     vb_date |-> "1/9/2024", vb_rate |-> vbRate]

\* PO lines "201" and "202": received on two lines of one item of receipt "1",
\* on lines of two items of receipt "1", or on receipts "1" and "2"
LinkLists ==
    UNION {{<<Link("201", "7", "1", "k1", "b1", r1), Link("202", "7", "1", "k3", "b2", r2)>>,
            <<Link("202", "7", "1", "k3", "b2", r2), Link("201", "7", "1", "k1", "b1", r1)>>,
            <<Link("201", "7", "1", "k1", "b1", r1), Link("202", "8", "1", "k2", "b2", r2)>>,
            <<Link("201", "7", "1", "k1", "b1", r1), Link("202", "8", "2", "k4", "b2", r2)>>,
            <<Link("201", "7", "1", "k3", "b1", r1)>>} : r1 \in BillRates, r2 \in BillRates}

\* the row of a PO line: the receipt line's rate is the stored one
searchRow(st, link) ==
    LET lines == st[link.ir_id].lines
        i == CHOOSE n \in DOMAIN lines : lines[n].key = link.ir_line_id
    IN  [po_id |-> "9", po_line_id |-> link.po_line_id, item_id |-> link.item_id,
         ir_id |-> link.ir_id, ir_line_id |-> link.ir_line_id, ir_date |-> link.ir_date,
         ir_rate |-> rateValue(lines[i].rate),
         vb_id |-> link.vb_id, vb_line_id |-> link.vb_line_id, vb_date |-> link.vb_date,
         vb_rate |-> link.vb_rate]

\* searchIRVBVariances: the joined rows whose receipt rate and bill rate differ
searchIRVBVariances(st, links) ==
    LET all == [n \in DOMAIN links |-> searchRow(st, links[n])]
        differs(row) == parseFloat(row.ir_rate) # parseFloat(row.vb_rate)
    IN  SelectSeq(all, differs)

\* receipt "1" may lie in a closed period; its lines are at 9.00 or at 10.00
InitReconcile ==
    /\ variant = "IR"
    /\ \E f \in {"none", "closed"}, rate \in {900, 1000} :
          store = [d \in DocIds |->
                     IF d = "1"
                     THEN [lines |-> [i \in DOMAIN LinesOfDoc1 |-> SetRate(LinesOfDoc1[i], rate)],
                           fault |-> f]
                     ELSE [lines |-> LinesOfDoc2, fault |-> "none"]]
    /\ \E links \in LinkLists : run = [phase |-> "none", links |-> links]
    /\ rows = <<>> /\ pairs = NoPairs
    /\ call = NoCall
    /\ BatchIdle /\ AdjIdle /\ PageIdle

\* getVariancePairs at the start of execute
FindPairs ==
    /\ run.phase = "none"
    /\ LET rawResults == searchIRVBVariances(store, run.links)
           variancePairs == getVariancePairs(rawResults, MIN_VARIANCE)
       IN  /\ rows' = rawResults
           /\ pairs' = [fetched |-> TRUE, groups |-> groupByPOLine(rawResults),
                        list |-> variancePairs]
           /\ run' = [phase |-> "loop", links |-> run.links, first |-> variancePairs,
                      next |-> 1, failed |-> FALSE]
    /\ UNCHANGED <<variant, store, call, req, lastReq, resp, hist, vb, je, adj, page>>

\* the callback's call of the Record Mutator on the next pair:
\* updateItemReceiptLineRate(pair.ir_id, pair.ir_line_id, pair.item_id, pair.vb_rate)
FixPair ==
    /\ run.phase = "loop"
    /\ run.next <= Len(run.first)
    /\ LET pair == run.first[run.next]
           item_id == pairs.groups[pair.po_line_id].poInfo.item_id
           m == updateItemReceiptLineRate(store, pair.ir_id, pair.ir_line_id, item_id,
                                          numberString(pair.vb_rate))
       IN  /\ store' = m.store
           /\ run' = [run EXCEPT !.next = @ + 1, !.failed = @ \/ ~m.ok]
    /\ UNCHANGED <<variant, call, req, lastReq, resp, hist, vb, je, adj, rows, pairs, page>>

\* getVariancePairs of the next run, on the documents as they are now
FindAgain ==
    /\ run.phase = "loop"
    /\ run.next > Len(run.first)
    /\ LET rawResults == searchIRVBVariances(store, run.links)
       IN  /\ rows' = rawResults
           /\ pairs' = [fetched |-> TRUE, groups |-> groupByPOLine(rawResults),
                        list |-> getVariancePairs(rawResults, MIN_VARIANCE)]
    /\ run' = [run EXCEPT !.phase = "again"]
    /\ UNCHANGED <<variant, store, call, req, lastReq, resp, hist, vb, je, adj, page>>

NextReconcile == FindPairs \/ FixPair \/ FindAgain
SpecReconcile == InitReconcile /\ [][NextReconcile]_vars

\* the stored rate of the receipt line of a pair
StoredRate(pair) ==
    LET lines == store[pair.ir_id].lines
    IN  lines[CHOOSE n \in DOMAIN lines : lines[n].key = pair.ir_line_id].rate

\* C33: when every pair found has been processed successfully, the pairs
\* found on the updated documents hold none of them, and the rate of each
\* pair's receipt line is within 0.01 of the rate of its bill line.
C33_NoPairEmittedAgain ==
    (run.phase = "again" /\ ~run.failed) =>
        /\ PairSet(pairs.list) \cap PairSet(run.first) = {}
        /\ \A n \in DOMAIN run.first :
              Abs(StoredRate(run.first[n]) - run.first[n].vb_rate) <= 1

\* C33 where no receipt carries the item of two pairs of different bill rates
C33_NoPairAgainUnlessItemShared ==
    (run.phase = "again" /\ ~run.failed /\ run.first # <<>>) =>
        \/ \E n, m \in DOMAIN run.first :
              /\ n # m /\ run.first[n].ir_id = run.first[m].ir_id
              /\ run.first[n].vb_rate # run.first[m].vb_rate
              /\ \E i, j \in DOMAIN store[run.first[n].ir_id].lines :
                    /\ store[run.first[n].ir_id].lines[i].key = run.first[n].ir_line_id
                    /\ store[run.first[n].ir_id].lines[j].key = run.first[m].ir_line_id
                    /\ store[run.first[n].ir_id].lines[i].item
                          = store[run.first[n].ir_id].lines[j].item
        \/ /\ PairSet(pairs.list) \cap PairSet(run.first) = {}
           /\ \A n \in DOMAIN run.first : StoredRate(run.first[n]) = run.first[n].vb_rate

----------------------------------------------------------------------------
(* Outcome of the closed-period adjustment against what it persisted *)

\* C34: a request that ends in the error outcome ('Adjustment failed: ...')
\* has persisted no Journal Entry, and a request that ends in
\* adjustmentSuccess has saved the Vendor Bill and the Journal Entry.
C34_OutcomeTellsWhatWasSaved ==
    [][adj'.out # "none" =>
        /\ adj'.out = "error" => je' = je
        /\ adj'.out = "success" =>
              /\ adj'.trace.vbSaved /\ adj'.trace.jeSaved
              /\ Len(je') = Len(je) + 1
              /\ vb' # vb]_vars

\* C34 but for the load of the saved Journal Entry: the error outcome leaves
\* no Journal Entry unless it is that load which threw.
C34_OutcomeUnlessNumberLoadFails ==
    [][adj'.out # "none" =>
        /\ (adj'.out = "error" /\ adj'.error # "Journal Entry load failed") => je' = je
        /\ adj'.out = "success" =>
              /\ adj'.trace.vbSaved /\ adj'.trace.jeSaved
              /\ Len(je') = Len(je) + 1
              /\ vb' # vb]_vars

----------------------------------------------------------------------------
(* Specification of the selection's encoding: the table's checkbox values, *)
(* joined by the page's script and split again by handlePost.               *)

\* Number.prototype.toFixed(2) of a rate held in cents
toFixed2(cents) ==
    CASE cents = 1000 -> "10.00"
      [] cents = 1250 -> "12.50"

\* names and numbers with a separator in them
CommaName == "Range, 30in"
BarName == "Hood|XL"
BarNumber == "IR|101"

\* a string as text: the separators stand alone as pieces
piecesOf(str) ==
    CASE str = CommaName -> <<"Range", ",", " 30in">>
      [] str = BarName -> <<"Hood", "|", "XL">>
      [] str = BarNumber -> <<"IR", "|", "101">>
      [] str = "" -> <<>>
      [] OTHER -> <<str>>

\* var checkboxValue = ... of buildVarianceTable
checkboxValue(v, pair) ==
    IF v = "IR"
    THEN joinPieces(<<piecesOf(pair.ir_id), piecesOf(pair.ir_line_id),
                      piecesOf(toFixed2(pair.vb_rate)), piecesOf(pair.ir_number),
                      piecesOf(pair.item_name), piecesOf(pair.item_id)>>, "|")
    ELSE joinPieces(<<piecesOf(pair.po_id), piecesOf(pair.po_line_key),
                      piecesOf(pair.po_number), piecesOf(pair.item_name)>>, "|")

\* the pairs a table can show
TablePairs(v) ==
    IF v = "IR"
    THEN [ir_id : {"1"}, ir_line_id : {"k1"}, vb_rate : {1000, 1250},
          ir_number : {"IR101", BarNumber},
          item_name : {"Range", QuotedName, CommaName, BarName}, item_id : {"7"}]
    ELSE [po_id : {"1"}, po_line_key : {"k1", "k4"}, po_number : {"PO201"},
          item_name : {"Range", QuotedName, CommaName, BarName}]
TableLists(v) == UNION {[1..n -> TablePairs(v)] : n \in 1..2}

InitSelect ==
    /\ variant \in {"IR", "PO"}
    /\ \E variancePairs \in TableLists(variant) :
          pairs = [fetched |-> TRUE, list |-> variancePairs]
    /\ rows = <<>>
    /\ store = [d \in DocIds |->
                  [lines |-> IF d = "1" THEN LinesOfDoc1 ELSE LinesOfDoc2, fault |-> "none"]]
    /\ call = NoCall
    /\ BatchIdle /\ AdjIdle /\ RunIdle /\ PageIdle

\* buildVarianceTable: a checkbox per pair, its value attribute escaped; the
\* browser reads the attribute back
ShowTable ==
    /\ ~page.shown
    /\ page' = [shown |-> TRUE,
                checkboxes |-> [n \in DOMAIN pairs.list |->
                    attributeValue(escapeHtml(checkboxValue(variant, pairs.list[n])))]]
    /\ UNCHANGED <<variant, store, call, req, lastReq, resp, hist, vb, je, adj, run, rows, pairs>>

\* submitVariances with every checkbox checked: selected.join(',') is posted
SubmitVariances ==
    /\ page.shown /\ req = NoReq
    /\ req' = [selected_variances |-> joinPieces(page.checkboxes, ","), batch_index |-> <<>>,
               success_count |-> <<>>, error_count |-> <<>>,
               previous_errors |-> <<>>, previous_updated |-> <<>>]
    /\ UNCHANGED <<variant, store, call, lastReq, resp, hist, vb, je, adj, run, rows, pairs, page>>

\* handlePost: allUpdates = selectedVariances.split(','), parts = update.split('|')
SplitSelection ==
    /\ req # NoReq /\ resp = NoResp
    /\ resp' = [kind |-> "split", parts |-> splitUpdates(req.selected_variances)]
    /\ UNCHANGED <<variant, store, call, req, lastReq, hist, vb, je, adj, run, rows, pairs, page>>

NextSelect == ShowTable \/ SubmitVariances \/ SplitSelection
SpecSelect == InitSelect /\ [][NextSelect]_vars

\* the fields of a pair as its update carries them
FieldsOf(v, pair) ==
    IF v = "IR"
    THEN <<pair.ir_id, pair.ir_line_id, toFixed2(pair.vb_rate), pair.ir_number,
           pair.item_name, pair.item_id>>
    ELSE <<pair.po_id, pair.po_line_key, pair.po_number, pair.item_name>>

\* C35: the selection split by handlePost has as many updates as pairs were
\* selected, and the fields of each update are the fields of its pair, a ','
\* or '|' in an item name or a document number included.
C35_SelectionRoundTrip ==
    resp.kind = "split" =>
        /\ Len(resp.parts) = Len(pairs.list)
        /\ \A n \in DOMAIN pairs.list : resp.parts[n] = FieldsOf(variant, pairs.list[n])

\* the strings without ',' and '|'
PlainStrings == {"Range", QuotedName, "IR101", "PO201"}

\* C35 for pairs whose item names and document numbers hold no ',' and no '|'
C35_RoundTripWithoutSeparators ==
    (/\ resp.kind = "split"
     /\ \A n \in DOMAIN pairs.list :
           /\ pairs.list[n].item_name \in PlainStrings
           /\ variant = "IR" => pairs.list[n].ir_number \in PlainStrings)
        => /\ Len(resp.parts) = Len(pairs.list)
           /\ \A n \in DOMAIN pairs.list : resp.parts[n] = FieldsOf(variant, pairs.list[n])

----------------------------------------------------------------------------
(* Specification of the PO/VB rounds with the location filter and the       *)
(* threshold overrides: the parameters travel in the redirect, in the URL   *)
(* of the processing page and in the fields of its form. A parameter that   *)
(* is absent is the empty text.                                             *)

\* the parameters handlePost adds to each of its redirects: location_filter
\* always ('all' by default), a threshold if it is truthy
redirectFilters(params) ==
    [location_filter |-> orDefault(params.location_filter, <<"all">>),
     service_threshold |-> params.service_threshold,
     kitchen_threshold |-> params.kitchen_threshold,
     appliances_threshold |-> params.appliances_threshold]

\* the redirect of a round with the filters of its request
withFilters(redirect, params) ==
    IF redirect.kind \in {"continue", "complete", "error"}
    THEN redirect @@ redirectFilters(params)
    ELSE redirect

\* handlePost of the PO/VB suitelet on the parameters of a POST
handlePostPO(st, params) ==
    LET r == handlePostText("PO", st, params)
    IN  [r EXCEPT !.resp = withFilters(@, params)]

\* request.parameters of the GET the continuation redirect leads to
requestParametersPO(redirect) ==
    requestParameters(redirect) @@ redirectFilters(redirect)

\* the hidden inputs of the PO/VB continueForm: those of the IR/VB form and
\* location_filter
continueFormPO(params) ==
    continueForm(params)
        @@ [location_filter |-> escapeHtml(orDefault(params.location_filter, <<"all">>))]

\* the POST the browser makes of the form, to the URL of the page: the
\* form's fields, and the thresholds of the URL's query where the platform
\* hands the query of a POST to the script
formSubmitPO(form, url, queryRead) ==
    formSubmit(form)
        @@ [location_filter |-> attributeValue(form.location_filter),
            service_threshold |-> IF queryRead THEN url.service_threshold ELSE <<>>,
            kitchen_threshold |-> IF queryRead THEN url.kitchen_threshold ELSE <<>>,
            appliances_threshold |-> IF queryRead THEN url.appliances_threshold ELSE <<>>]

\* the first POST of the PO/VB page: the selection, the location filter and
\* the threshold fields the page's script copies from the filter form
FirstPostsPO ==
    {FirstPost(Pattern(<<<<"1", "k1", "PO201", "Range">>, <<"2", "k4", "PO202", QuotedName>>>>, n))
        @@ [location_filter |-> l, service_threshold |-> s, kitchen_threshold |-> k,
            appliances_threshold |-> a] :
        n \in {3, MaxSel - 1, MaxSel}, l \in {<<>>, <<"service">>},
        s \in {<<>>, <<"0">>, <<"3">>}, k \in {<<>>, <<"3">>}, a \in {<<>>, <<"3">>}}

InitFilter ==
    /\ variant = "PO"
    /\ \E f \in [DocIds -> {"none", "closed"}] :
          store = [d \in DocIds |->
                     [lines |-> IF d = "1" THEN LinesOfDoc1 ELSE LinesOfDoc2, fault |-> f[d]]]
    /\ req \in FirstPostsPO
    /\ \E queryRead \in BOOLEAN :
          hist = [op |-> "none", rounds |-> 0, first |-> req, queryRead |-> queryRead]
    /\ lastReq = NoReq /\ resp = NoResp
    /\ call = NoCall
    /\ AdjIdle /\ RunIdle /\ SearchIdle /\ PageIdle

\* a POST of the request in flight
PostRoundPO ==
    /\ hist.op \in {"none", "relay"}
    /\ responded(handlePostPO(store, req))
    /\ lastReq' = req
    /\ hist' = [hist EXCEPT !.op = "submit", !.rounds = @ + 1]
    /\ UNCHANGED <<variant, call, req, vb, je, adj, run, rows, pairs, page>>

\* the continuation redirect is followed and the processing page's form is
\* submitted by the browser
RelayPO ==
    /\ hist.op = "submit" /\ resp.kind = "continue"
    /\ req' = formSubmitPO(continueFormPO(requestParametersPO(resp)),
                           requestParametersPO(resp), hist.queryRead)
    /\ hist' = [hist EXCEPT !.op = "relay"]
    /\ UNCHANGED <<variant, store, call, lastReq, resp, vb, je, adj, run, rows, pairs, page>>

NextFilter == PostRoundPO \/ RelayPO
SpecFilter == InitFilter /\ [][NextFilter]_vars

C36_LocationFilterReachesTheTerminalRedirect ==
    (hist.op = "submit" /\ resp.kind = "complete") =>
        /\ resp.location_filter = orDefault(hist.first.location_filter, <<"all">>)
        /\ (hist.rounds = 1 \/ hist.queryRead) =>
              /\ resp.service_threshold = hist.first.service_threshold
              /\ resp.kitchen_threshold = hist.first.kitchen_threshold
              /\ resp.appliances_threshold = hist.first.appliances_threshold

----------------------------------------------------------------------------
(* Specification of the requests of both suitelets: a page is opened, a     *)
(* selection or none is posted, every redirect is followed by the GET it    *)
(* leads to, and the processing page's form is submitted.                   *)

\* request.parameters of the GET a redirect leads to; PO/VB redirects carry
\* location_filter
pageParameters(v, redirect) ==
    [processing |-> IF redirect.kind = "continue" THEN <<"true">> ELSE <<>>,
     updateSuccess |-> IF redirect.kind = "complete" THEN <<"true">> ELSE <<>>,
     error |-> IF redirect.kind = "error" THEN <<redirect.error>> ELSE <<>>,
     location_filter |-> IF v = "PO" THEN redirect.location_filter ELSE <<>>,
     service_threshold |-> IF v = "PO" THEN redirect.service_threshold ELSE <<>>,
     kitchen_threshold |-> IF v = "PO" THEN redirect.kitchen_threshold ELSE <<>>,
     appliances_threshold |-> IF v = "PO" THEN redirect.appliances_threshold ELSE <<>>]
        @@ (IF redirect.kind = "continue" THEN requestParameters(redirect)
            ELSE FirstPost(<<>>))

\* buildPageHTML: the processing page with its form, or the review page with
\* the success message and the error message it shows
buildPageHTML(v, params) ==
    IF params.processing = <<"true">>
    THEN [shown |-> TRUE, processing |-> TRUE, params |-> params,
          form |-> IF v = "PO" THEN continueFormPO(params) ELSE continueForm(params),
          success |-> FALSE, error |-> <<>>]
    ELSE [shown |-> TRUE, processing |-> FALSE, params |-> params,
          success |-> params.updateSuccess = <<"true">>,
          error |-> IF params.error # <<>> /\ (v = "IR" \/ params.location_filter = <<>>)
                    THEN escapeHtml(params.error) ELSE <<>>]

\* a GET that saves: every document loses its lines
handleGetSaving(v, st, params) ==
    [store |-> [d \in DOMAIN st |-> [st[d] EXCEPT !.lines = <<>>]],
     page |-> buildPageHTML(v, params)]

\* handleGet: the page is built and written; no record is loaded or saved
handleGet(v, st, params) ==
    [store |-> st, page |-> buildPageHTML(v, params)]

\* no filter and no threshold in a request
NoFilters ==
    [location_filter |-> <<>>, service_threshold |-> <<>>,
     kitchen_threshold |-> <<>>, appliances_threshold |-> <<>>]

\* the selections posted: none, one update, one more than a window
PostedSelections(v) ==
    LET u == IF v = "IR" THEN <<"1", "k1", "12.5", irNumber("1"), "Range", "7">>
                         ELSE <<"1", "k1", "PO201", "Range">>
    IN  {<<>>, <<u>>, Pattern(<<u>>, batchSize(v) + 1)}

\* the filters of a PO/VB request; an IR/VB request has none
PostedFilters(v) ==
    IF v = "IR" THEN {NoFilters}
    ELSE {[NoFilters EXCEPT !.location_filter = l, !.service_threshold = s] :
             l \in {<<>>, <<"service">>}, s \in {<<>>, <<"3">>}}

\* the parameters of a page opened by hand: nothing, an error, a processing
\* page without selection
OpenedParameters(v) ==
    {[FirstPost(<<>>) @@ f @@ [processing |-> p, updateSuccess |-> <<>>, error |-> e]
        EXCEPT !.selected_variances = <<>>] :
        f \in PostedFilters(v), p \in {<<>>, <<"true">>}, e \in {<<>>, <<"Adjustment failed">>}}

InitGet ==
    /\ variant \in {"IR", "PO"}
    /\ \E f \in [DocIds -> {"none", "closed"}] :
          store = [d \in DocIds |->
                     [lines |-> IF d = "1" THEN LinesOfDoc1 ELSE LinesOfDoc2, fault |-> f[d]]]
    /\ \E sel \in PostedSelections(variant), f \in PostedFilters(variant) :
          req = FirstPost(sel) @@ f
    /\ hist = [op |-> "none", before |-> store, posted |-> FALSE]
    /\ lastReq = NoReq /\ resp = NoResp
    /\ call = NoCall
    /\ AdjIdle /\ RunIdle /\ SearchIdle /\ PageIdle

\* the outcome of handlePost with the filters the PO/VB suitelet adds to
\* its redirect
filtered(r, v, params) ==
    [r EXCEPT !.resp = IF v = "PO" THEN withFilters(@, params) ELSE @]

\* onRequest of a POST
PostRequest ==
    /\ hist.op \in {"none", "relay"}
    /\ responded(filtered(handlePostText(variant, store, req), variant, req))
    /\ lastReq' = req
    /\ hist' = [op |-> "submit", before |-> store, posted |-> TRUE]
    /\ UNCHANGED <<variant, call, req, vb, je, adj, run, rows, pairs, page>>

\* onRequest of the GET a redirect leads to
GetRedirect ==
    /\ hist.op = "submit" /\ resp.kind \in {"continue", "complete", "error"}
    /\ LET g == handleGet(variant, store, pageParameters(variant, resp))
       IN  /\ store' = g.store
           /\ page' = g.page
    /\ hist' = [op |-> "redirect", before |-> store, posted |-> hist.posted]
    /\ UNCHANGED <<variant, call, req, lastReq, resp, vb, je, adj, run, rows, pairs>>

\* onRequest of a GET of a page opened by hand
OpenPage ==
    /\ hist.op = "none"
    /\ \E params \in OpenedParameters(variant) :
          LET g == handleGet(variant, store, params)
          IN  /\ store' = g.store
              /\ page' = g.page
    /\ hist' = [op |-> "open", before |-> store, posted |-> FALSE]
    /\ UNCHANGED <<variant, call, req, lastReq, resp, vb, je, adj, run, rows, pairs>>

\* the processing page's form is submitted by the browser
SubmitForm ==
    /\ hist.op \in {"redirect", "open"} /\ page.processing
    /\ req' = IF variant = "PO"
              THEN formSubmitPO(page.form, page.params, FALSE)
              ELSE formSubmit(page.form) @@ NoFilters
    /\ hist' = [hist EXCEPT !.op = "relay"]
    /\ UNCHANGED <<variant, store, call, lastReq, resp, vb, je, adj, run, rows, pairs, page>>

NextGet == PostRequest \/ GetRedirect \/ OpenPage \/ SubmitForm
SpecGet == InitGet /\ [][NextGet]_vars

\* C37: a POST without selection changes no document and redirects with the
\* error 'No variances selected', and the page of that redirect shows it.
C37_NoSelectionIsReportedOnThePage ==
    (hist.op \in {"submit", "redirect"} /\ lastReq.selected_variances = <<>>) =>
        /\ store = hist.before
        /\ resp.kind = "error" /\ resp.error = "No variances selected"
        /\ hist.op = "redirect" => page.error = <<"No variances selected">>

\* C37 as the code has it: the redirect is as stated in both suitelets; the
\* IR/VB page shows the message, the PO/VB page, whose redirect carries
\* location_filter, shows no error
C37_NoSelectionIsReportedByTheRedirect ==
    (hist.op \in {"submit", "redirect"} /\ lastReq.selected_variances = <<>>) =>
        /\ store = hist.before
        /\ resp.kind = "error" /\ resp.error = "No variances selected"
        /\ hist.op = "redirect" =>
              page.error = IF variant = "IR" THEN <<"No variances selected">> ELSE <<>>

\* C38: a GET, of either suitelet and of the processing page too, leaves
\* every document as it was.
C38_GetChangesNoDocument ==
    hist.op \in {"redirect", "open"} => store = hist.before

C38_Witness ==
    /\ hist.op = "redirect" /\ page.processing
    /\ \E d \in DocIds : store[d].lines # (IF d = "1" THEN LinesOfDoc1 ELSE LinesOfDoc2)

----------------------------------------------------------------------------
(* Specification of two sessions correcting Item Receipt "1" at the same    *)
(* time: each loads the record, sets the rate of its item in its own copy   *)
(* and saves the copy. The code holds no lock and compares no revision; the *)
(* platform either stores the copy saved last as it is, or refuses the save *)
(* of a copy loaded before another save.                                    *)

Sessions == {"a", "b"}
RecordChangedMsg == "Record has been changed"

\* session "a" corrects item "7"; session "b" item "8", or item "7" as well
InitRace ==
    /\ variant = "IR"
    /\ \E f \in {"none", "closed"} :
          store = [d \in DocIds |->
                     [lines |-> IF d = "1" THEN LinesOfDoc1 ELSE LinesOfDoc2,
                      fault |-> IF d = "1" THEN f ELSE "none"]]
    /\ \E platform \in {"overwrite", "versioned"}, itemB \in {"8", "7"},
          rateA \in {"10.00", "12.50"}, rateB \in {"10.00", "12.50"} :
          run = [phase |-> "race", platform |-> platform, version |-> 0,
                 session |-> [s \in Sessions |->
                     [pc |-> "start", item |-> IF s = "a" THEN "7" ELSE itemB,
                      rate |-> IF s = "a" THEN rateA ELSE rateB,
                      copy |-> <<>>, seen |-> 0, stale |-> FALSE, err |-> ""]]]
    /\ call = NoCall
    /\ BatchIdle /\ AdjIdle /\ SearchIdle /\ PageIdle

\* record.load of updateItemReceiptLineRate: the session gets its own copy
LoadReceipt ==
    /\ run.phase = "race"
    /\ \E s \in Sessions :
          /\ run.session[s].pc = "start"
          /\ run' = [run EXCEPT !.session[s].pc = "loaded",
                                !.session[s].copy = recordLoad(store, "1"),
                                !.session[s].seen = run.version]
    /\ UNCHANGED <<variant, store, call, req, lastReq, resp, hist, vb, je, adj, rows, pairs, page>>

\* the rest of updateItemReceiptLineRate: the lines of the item are set in
\* the copy and the copy is saved
SaveReceipt ==
    /\ run.phase = "race"
    /\ \E s \in Sessions :
          LET me == run.session[s]
              irRecord == UpdateMatching(me.copy, me.item, parseFloat(me.rate))
              stale == me.seen # run.version
              saved == recordSave(store, "1", irRecord)
          IN  /\ me.pc = "loaded"
              /\ IF linesUpdated(irRecord, me.item) = 0
                 THEN /\ run' = [run EXCEPT !.session[s].pc = "failed",
                                            !.session[s].err = NotFoundIR]
                      /\ store' = store
                 ELSE IF stale /\ run.platform = "versioned"
                 THEN /\ run' = [run EXCEPT !.session[s].pc = "failed",
                                            !.session[s].stale = TRUE,
                                            !.session[s].err = RecordChangedMsg]
                      /\ store' = store
                 ELSE /\ run' = [run EXCEPT !.session[s].pc = IF saved.ok THEN "saved" ELSE "failed",
                                            !.session[s].stale = stale,
                                            !.session[s].err = saved.err,
                                            !.version = IF saved.ok THEN @ + 1 ELSE @]
                      /\ store' = saved.store
    /\ UNCHANGED <<variant, call, req, lastReq, resp, hist, vb, je, adj, rows, pairs, page>>

NextRace == LoadReceipt \/ SaveReceipt
SpecRace == InitRace /\ [][NextRace]_vars

\* the lines of the session's item carry the session's rate in the stored record
CorrectionStored(s) ==
    \A i \in DOMAIN store["1"].lines :
        MatchesItem(store["1"].lines[i], run.session[s].item) =>
            store["1"].lines[i].rate = parseFloat(run.session[s].rate)

BothSaved == \A s \in Sessions : run.session[s].pc = "saved"

\* C39: two sessions correct different items of one Item Receipt; once both
\* saves have succeeded, both corrections are in the stored record, in
\* every interleaving.
C39_NoUpdateLost ==
    (BothSaved /\ run.session["a"].item # run.session["b"].item) =>
        \A s \in Sessions : CorrectionStored(s)

\* C39 for the sessions of which none saved a copy loaded before the
\* other's save
C39_NoUpdateLostInTurn ==
    (BothSaved /\ run.session["a"].item # run.session["b"].item
        /\ \A s \in Sessions : ~run.session[s].stale) =>
        \A s \in Sessions : CorrectionStored(s)

====
